---- MODULE Spec2Model ----
(***************************************************************************)
(* A model of ccimport's C++ source scanner (ccimport/source_iter.py) and  *)
(* of the binding generator's classification step (ccimport/core.py).      *)
(*                                                                         *)
(* Sources, identifier names and qualified ids are strings.  Positions     *)
(* are Python's 0-based offsets, ranges are half open [start, end).        *)
(***************************************************************************)
EXTENDS Integers, Sequences, FiniteSets, TLC

\* ------------------------------------------------------------------------
\* Strings as Python sees them
\* ------------------------------------------------------------------------

\* source[p]
Ch(s, p) == SubSeq(s, p + 1, p + 1)

\* source[a:b]
Slice(s, a, b) == SubSeq(s, a + 1, b)

\* a local whose value is computed once and named inside Body
With(value, Body(_)) == Body(value)

Last(seq) == seq[Len(seq)]

\* The set of characters of a string.
Chars(str) == { SubSeq(str, i, i) : i \in 1..Len(str) }

NoMatch == -1

Digits == Chars("0123456789")
OctDigits == Chars("01234567")
HexDigits == Chars("0123456789abcdefABCDEF")
IdStart == Chars("abcdefghijklmnopqrstuvwxyzABCDEFGHIJKLMNOPQRSTUVWXYZ_")
IdChar == IdStart \cup Digits
\* ['\"?\\abfnrtv]
SimpleEscapes == Chars("'\"?\\abfnrtv")
\* the complement of [^ ()\\\t\x0B\r\n]; VerticalTab is the character \x0B
VerticalTab == ""
NotDelim == Chars(" ()\\\t\r\n") \cup {VerticalTab}

\* The characters of identifiers in code point order: Python compares
\* names (sort, bisect) by code point.
CodePointOrder == "0123456789ABCDEFGHIJKLMNOPQRSTUVWXYZ_abcdefghijklmnopqrstuvwxyz"

Ord(c) == CHOOSE i \in 1..Len(CodePointOrder) : SubSeq(CodePointOrder, i, i) = c

\* a < b for Python strings made of identifier characters
RECURSIVE StrLess(_, _)
StrLess(a, b) ==
    IF Len(b) = 0 THEN FALSE
    ELSE IF Len(a) = 0 THEN TRUE
    ELSE IF Head(a) = Head(b) THEN StrLess(Tail(a), Tail(b))
    ELSE Ord(Head(a)) < Ord(Head(b))

\* string.startswith(prefix)
StartsWith(string, prefix) ==
    Len(prefix) <= Len(string) /\ SubSeq(string, 1, Len(prefix)) = prefix

\* ------------------------------------------------------------------------
\* CPP_SIMPLE_TOKEN: one matcher per alternative of the pattern.  Each
\* gives the end of the match that starts at p, or NoMatch.
\* ------------------------------------------------------------------------

\* \/\/.*  with a '.' that matches a newline too: the rest of the source
LineCommentEndDotAll(s, p) == Len(s)

\* \/\/.*     ('.' stops before a newline)
RECURSIVE LineCommentEnd(_, _)
LineCommentEnd(s, p) ==
    IF p >= Len(s) \/ Ch(s, p) = "\n" THEN p ELSE LineCommentEnd(s, p + 1)

\* [\s\S]*?\*\/     (lazy: the first "*/" at or after p)
RECURSIVE BlockCommentEnd(_, _)
BlockCommentEnd(s, p) ==
    IF p + 1 >= Len(s) THEN NoMatch
    ELSE IF Ch(s, p) = "*" /\ Ch(s, p + 1) = "/" THEN p + 2
    ELSE BlockCommentEnd(s, p + 1)

\* (\/\/.*|\/\*[\s\S]*?\*\/)
MatchComment(s, p) ==
    IF p + 1 < Len(s) /\ Ch(s, p) = "/"
    THEN IF Ch(s, p + 1) = "/" THEN LineCommentEnd(s, p + 2)
         ELSE IF Ch(s, p + 1) = "*" THEN BlockCommentEnd(s, p + 2)
         ELSE NoMatch
    ELSE NoMatch

\* the number of characters of class cls at p, p+1, ... , at most most
RECURSIVE RunLength(_, _, _, _)
RunLength(s, p, cls, most) ==
    IF most = 0 \/ p >= Len(s) \/ Ch(s, p) \notin cls THEN 0
    ELSE 1 + RunLength(s, p + 1, cls, most - 1)

\* \\(?:['\"?\\abfnrtv]|[0-7]{1,3}|x[0-9a-fA-F]{1,2}|u[0-9a-fA-F]{4}|U[0-9a-fA-F]{8})
\* with s[p] the backslash: the length of the escape, 0 when there is none
EscapeLen(s, p) ==
    IF p + 1 >= Len(s) THEN 0
    ELSE LET c == Ch(s, p + 1) IN
         IF c \in SimpleEscapes THEN 2
         ELSE IF c \in OctDigits THEN 1 + RunLength(s, p + 1, OctDigits, 3)
         ELSE IF c = "x" THEN
              (IF RunLength(s, p + 2, HexDigits, 2) >= 1
               THEN 2 + RunLength(s, p + 2, HexDigits, 2) ELSE 0)
         ELSE IF c = "u" THEN
              (IF RunLength(s, p + 2, HexDigits, 4) = 4 THEN 6 ELSE 0)
         ELSE IF c = "U" THEN
              (IF RunLength(s, p + 2, HexDigits, 8) = 8 THEN 10 ELSE 0)
         ELSE 0

\* (?:escape|[^q\\\r\n]){least,}q   from p, just after the opening quote q;
\* n counts the elements matched so far
RECURSIVE QuotedBodyEnd(_, _, _, _, _)
QuotedBodyEnd(s, p, q, least, n) ==
    IF p >= Len(s) THEN NoMatch
    ELSE LET c == Ch(s, p) IN
         IF c = q THEN (IF n >= least THEN p + 1 ELSE NoMatch)
         ELSE IF c = "\\" THEN
              (IF EscapeLen(s, p) = 0 THEN NoMatch
               ELSE QuotedBodyEnd(s, p + EscapeLen(s, p), q, least, n + 1))
         ELSE IF c \in {"\r", "\n"} THEN NoMatch
         ELSE QuotedBodyEnd(s, p + 1, q, least, n + 1)

\* (?:u8?|U|L)?   the lengths the optional prefix can take at p, in the
\* order the regex engine tries them
PrefixLens(s, p) ==
    IF p >= Len(s) THEN <<0>>
    ELSE IF Ch(s, p) = "u"
         THEN (IF p + 1 < Len(s) /\ Ch(s, p + 1) = "8" THEN <<2, 1, 0>> ELSE <<1, 0>>)
    ELSE IF Ch(s, p) \in {"U", "L"} THEN <<1, 0>>
    ELSE <<0>>

\* a quoted literal with opening quote at p
QuotedAt(s, p, q, least) ==
    IF p < Len(s) /\ Ch(s, p) = q THEN QuotedBodyEnd(s, p + 1, q, least, 0)
    ELSE NoMatch

\* the first of the candidate ends that is a match
RECURSIVE FirstMatch(_)
FirstMatch(ends) ==
    IF ends = <<>> THEN NoMatch
    ELSE IF Head(ends) # NoMatch THEN Head(ends)
    ELSE FirstMatch(Tail(ends))

\* (?:u8?|U|L)?'(?:...)+'
MatchCharLiteral(s, p) ==
    LET ks == PrefixLens(s, p)
    IN  FirstMatch([i \in 1..Len(ks) |-> QuotedAt(s, p + ks[i], "'", 1)])

\* (?:u8?|U|L)?\"(?:...)*\"
MatchString(s, p) ==
    LET ks == PrefixLens(s, p)
    IN  FirstMatch([i \in 1..Len(ks) |-> QuotedAt(s, p + ks[i], "\"", 0)])

\* ([^ ()\\\t\x0B\r\n]*)\(   from p: the position of the '(' that ends the
\* delimiter, or NoMatch
RECURSIVE DelimEnd(_, _)
DelimEnd(s, p) ==
    IF p >= Len(s) THEN NoMatch
    ELSE IF Ch(s, p) = "(" THEN p
    ELSE IF Ch(s, p) \in NotDelim THEN NoMatch
    ELSE DelimEnd(s, p + 1)

\* [\s\S]*\)\2\"   the body taken greedily: the end of the last ")delim\""
\* at or after p
RECURSIVE RawBodyEndGreedy(_, _, _)
RawBodyEndGreedy(s, p, delim) ==
    IF p + Len(delim) + 2 > Len(s) THEN NoMatch
    ELSE IF RawBodyEndGreedy(s, p + 1, delim) # NoMatch
         THEN RawBodyEndGreedy(s, p + 1, delim)
    ELSE IF /\ Ch(s, p) = ")"
            /\ Slice(s, p + 1, p + 1 + Len(delim)) = delim
            /\ Ch(s, p + 1 + Len(delim)) = "\""
         THEN p + Len(delim) + 2
    ELSE NoMatch

\* [\s\S]*?\)\2\"   from p: the end of the first ")delim\"" at or after p
RECURSIVE RawBodyEnd(_, _, _)
RawBodyEnd(s, p, delim) ==
    IF p + Len(delim) + 2 > Len(s) THEN NoMatch
    ELSE IF /\ Ch(s, p) = ")"
            /\ Slice(s, p + 1, p + 1 + Len(delim)) = delim
            /\ Ch(s, p + 1 + Len(delim)) = "\""
         THEN p + Len(delim) + 2
    ELSE RawBodyEnd(s, p + 1, delim)

\* R\"([^ ()\\\t\x0B\r\n]*)\([\s\S]*?\)\2\"  with the R at p
RawAt(s, p) ==
    IF p + 1 < Len(s) /\ Ch(s, p) = "R" /\ Ch(s, p + 1) = "\""
    THEN LET open == DelimEnd(s, p + 2) IN
         IF open = NoMatch THEN NoMatch
         ELSE RawBodyEnd(s, open + 1, Slice(s, p + 2, open))
    ELSE NoMatch

\* (?:u8?|U|L)?R\"...\"
MatchRawString(s, p) ==
    LET ks == PrefixLens(s, p)
    IN  FirstMatch([i \in 1..Len(ks) |-> RawAt(s, p + ks[i])])

\* ([a-zA-Z_][0-9a-zA-Z_]*)
MatchIdentifier(s, p) ==
    IF p < Len(s) /\ Ch(s, p) \in IdStart
    THEN p + 1 + RunLength(s, p + 1, IdChar, Len(s))
    ELSE NoMatch

Token(kind, start, end, text) ==
    [kind |-> kind, start |-> start, end |-> end, text |-> text]

NoToken == Token("None", NoMatch, NoMatch, "")

\* One match attempt of CPP_SIMPLE_TOKEN_RE at p: the alternatives in the
\* pattern's order, the first that matches wins.
TokenAt(s, p) ==
    IF MatchComment(s, p) # NoMatch
    THEN Token("Comment", p, MatchComment(s, p), Slice(s, p, MatchComment(s, p)))
    ELSE IF MatchCharLiteral(s, p) # NoMatch
    THEN Token("String", p, MatchCharLiteral(s, p), Slice(s, p, MatchCharLiteral(s, p)))
    ELSE IF MatchString(s, p) # NoMatch
    THEN Token("String", p, MatchString(s, p), Slice(s, p, MatchString(s, p)))
    ELSE IF MatchRawString(s, p) # NoMatch
    THEN Token("String", p, MatchRawString(s, p), Slice(s, p, MatchRawString(s, p)))
    ELSE IF MatchIdentifier(s, p) # NoMatch
    THEN Token("Identifier", p, MatchIdentifier(s, p), Slice(s, p, MatchIdentifier(s, p)))
    ELSE NoToken

\* a scan that tries every position: after a match the search resumes one
\* character after its start
RECURSIVE TokenizeFromOverlapping(_, _)
TokenizeFromOverlapping(s, p) ==
    IF p >= Len(s) THEN <<>>
    ELSE IF TokenAt(s, p) = NoToken THEN TokenizeFromOverlapping(s, p + 1)
    ELSE <<TokenAt(s, p)>> \o TokenizeFromOverlapping(s, p + 1)

\* finditer: scan on from p; after a match the search resumes at its end.
RECURSIVE TokenizeFrom(_, _)
TokenizeFrom(s, p) ==
    IF p >= Len(s) THEN <<>>
    ELSE LET t == TokenAt(s, p) IN
         IF t = NoToken THEN TokenizeFrom(s, p + 1)
         ELSE <<t>> \o TokenizeFrom(s, t.end)

cpp_simple_tokenize(source) == TokenizeFrom(source, 0)

\* ------------------------------------------------------------------------
\* bisect and the sorts of __init__
\* ------------------------------------------------------------------------

\* bisect.bisect_left(a, x, lo, hi) on a list of integers
RECURSIVE bisect_left(_, _, _, _)
bisect_left(a, x, lo, hi) ==
    IF lo < hi
    THEN LET mid == (lo + hi) \div 2 IN
         IF a[mid + 1] < x THEN bisect_left(a, x, mid + 1, hi)
         ELSE bisect_left(a, x, lo, mid)
    ELSE lo

\* bisect.bisect_left(a, x, lo, hi) on a list of strings
RECURSIVE bisect_left_str(_, _, _, _)
bisect_left_str(a, x, lo, hi) ==
    IF lo < hi
    THEN LET mid == (lo + hi) \div 2 IN
         IF StrLess(a[mid + 1], x) THEN bisect_left_str(a, x, mid + 1, hi)
         ELSE bisect_left_str(a, x, lo, mid)
    ELSE lo

IdentifierMeta(name, start, end) == [name |-> name, start |-> start, end |-> end]

\* list.sort(key=lambda x: x.name): stable, so m goes after every element
\* whose name is not greater
RECURSIVE InsertByName(_, _)
InsertByName(sorted, m) ==
    IF sorted = <<>> THEN <<m>>
    ELSE IF StrLess(m.name, Head(sorted).name) THEN <<m>> \o sorted
    ELSE <<Head(sorted)>> \o InsertByName(Tail(sorted), m)

RECURSIVE SortByName(_)
SortByName(metas) ==
    IF metas = <<>> THEN <<>>
    ELSE InsertByName(SortByName(SubSeq(metas, 1, Len(metas) - 1)), metas[Len(metas)])

\* list.sort(key=lambda x: x.start)
RECURSIVE InsertByStart(_, _)
InsertByStart(sorted, m) ==
    IF sorted = <<>> THEN <<m>>
    ELSE IF m.start < Head(sorted).start THEN <<m>> \o sorted
    ELSE <<Head(sorted)>> \o InsertByStart(Tail(sorted), m)

RECURSIVE SortByStart(_)
SortByStart(metas) ==
    IF metas = <<>> THEN <<>>
    ELSE InsertByStart(SortByStart(SubSeq(metas, 1, Len(metas) - 1)), metas[Len(metas)])

\* list.sort(key=lambda x: x[1]) on (name-or-char, start, end) triples
RECURSIVE InsertBySecond(_, _)
InsertBySecond(sorted, t) ==
    IF sorted = <<>> THEN <<t>>
    ELSE IF t[2] < Head(sorted)[2] THEN <<t>> \o sorted
    ELSE <<Head(sorted)>> \o InsertBySecond(Tail(sorted), t)

RECURSIVE SortBySecond(_)
SortBySecond(ts) ==
    IF ts = <<>> THEN <<>>
    ELSE InsertBySecond(SortBySecond(SubSeq(ts, 1, Len(ts) - 1)), ts[Len(ts)])

\* the elements of seq that satisfy Test, in order
SelectTokens(seq, kinds) == SelectSeq(seq, LAMBDA t : t.kind \in kinds)

\* ------------------------------------------------------------------------
\* CppSourceIterator: the indices built from the tokens
\* ------------------------------------------------------------------------

AllSymbols == {";", ":", "<", ">", "{", "}", "[", "]", "(", ")", "|"}
OpenBrackets == {"(", "[", "{"}
CloseBrackets == {")", "]", "}"}
skip_chars == {" ", "\t", "\r", "\n"}

\* end_brackets of _init_bracket_analysis; _bracket_inc maps a closing
\* bracket to the same kind with -1
end_brackets(c) == IF c = ")" THEN "(" ELSE IF c = "]" THEN "[" ELSE "{"

ZeroBrackets == [k \in OpenBrackets |-> 0]

\* the cursor: self.pos and self.bracket_state
Cursor(pos, bracket_state) == [pos |-> pos, bracket_state |-> bracket_state]

\* the loop over self.tokens, the two sorts and the lists derived from them
TokenIndices(src) ==
    With(cpp_simple_tokenize(src), LAMBDA toks :
    LET ids == SelectTokens(toks, {"Identifier"})
        ign == SelectTokens(toks, {"Comment", "String"})
        metas == [i \in 1..Len(ids) |-> IdentifierMeta(ids[i].text, ids[i].start, ids[i].end)]
    IN  With(SortByName(metas), LAMBDA byname :
        [source |-> src,
         tokens |-> toks,
         ignore_ranges |-> [i \in 1..Len(ign) |-> <<ign[i].start, ign[i].end>>],
         ignore_starts |-> [i \in 1..Len(ign) |-> ign[i].start],
         identifier_metas |-> byname,
         identifiers |-> [i \in 1..Len(byname) |-> byname[i].name],
         identifier_metas_start_sorted |-> SortByStart(byname),
         identifier_starts |-> [i \in 1..Len(byname) |-> SortByStart(byname)[i].start]]))

\* skip_string_comment with the ignore ranges left out: the cursor stays
skip_string_comment_off(it, pos) == pos

\* skip_string_comment: the position it leaves the cursor at
skip_string_comment(it, pos) ==
    LET hi == Len(it.ignore_starts)
        left == bisect_left(it.ignore_starts, pos, 0, hi) - 1
    IN  IF hi = 0 THEN pos
        ELSE IF left < 0 THEN pos
        ELSE IF pos < it.ignore_ranges[left + 1][2] THEN it.ignore_ranges[left + 1][2]
        ELSE pos

\* the assert that ends _init_bracket_analysis: the first kind, in the
\* dict's order, whose stack is not empty
UnclosedKind(stack) ==
    IF stack["("] # <<>> THEN "(" ELSE IF stack["["] # <<>> THEN "[" ELSE "{"

\* One iteration of the while loop of _init_bracket_analysis, with the
\* cursor at st.pos < N.
BracketStep(it, st) ==
    LET pos == st.pos
        val == Ch(it.source, pos)
        poses1 == IF val \in AllSymbols
                  THEN [st.poses EXCEPT ![val] = Append(@, pos)] ELSE st.poses
        open == st.stack[end_brackets(val)]
    IN  IF val \in skip_chars THEN [st EXCEPT !.pos = pos + 1]
        ELSE IF val \in OpenBrackets
        THEN [st EXCEPT !.pos = skip_string_comment(it, pos + 1),
                        !.stack[val] = Append(@, <<val, pos>>),
                        !.poses = poses1]
        ELSE IF val \in CloseBrackets
        THEN IF open = <<>>
             THEN [st EXCEPT !.exc = "ValueError", !.char = val, !.at = pos]
             ELSE [st EXCEPT !.pos = skip_string_comment(it, pos + 1),
                             !.stack[end_brackets(val)] = SubSeq(@, 1, Len(@) - 1),
                             !.pairs = Append(@, <<Last(open)[1], Last(open)[2], pos>>),
                             !.poses = poses1]
        ELSE [st EXCEPT !.pos = skip_string_comment(it, pos + 1), !.poses = poses1]

\* The iterations of the while loop that find the cursor in lo..hi-1, in
\* order (the cursor only moves forward; the range is halved to keep the
\* evaluation shallow).
RECURSIVE BracketLoop(_, _, _, _)
BracketLoop(it, st, lo, hi) ==
    IF st.exc # "None" \/ st.pos >= hi THEN st
    ELSE IF hi - lo <= 1 THEN BracketStep(it, st)
    ELSE BracketLoop(it, BracketLoop(it, st, lo, (lo + hi) \div 2), (lo + hi) \div 2, hi)

\* _init_bracket_analysis: the loop, then the asserts that follow it
_init_bracket_analysis(it) ==
    With(BracketLoop(it,
                  [pos |-> skip_string_comment(it, 0),
                   stack |-> [k \in OpenBrackets |-> <<>>],
                   pairs |-> <<>>,
                   poses |-> [k \in AllSymbols |-> <<>>],
                   exc |-> "None", char |-> "", at |-> NoMatch],
                  0, Len(it.source)), LAMBDA st :
        IF st.exc = "None" /\ \E k \in OpenBrackets : st.stack[k] # <<>>
        THEN [st EXCEPT !.exc = "AssertionError", !.char = UnclosedKind(st.stack)]
        ELSE st)

\* ------------------------------------------------------------------------
\* Lookups and range queries
\* ------------------------------------------------------------------------

\* key in self._start_to_bracket_pair
HasBracketPair(it, p) == \E i \in 1..Len(it.bracket_pairs) : it.bracket_pairs[i][2] = p

\* self._start_to_bracket_pair[p]
BracketPairAt(it, p) ==
    it.bracket_pairs[CHOOSE i \in 1..Len(it.bracket_pairs) : it.bracket_pairs[i][2] = p]

\* pos in self.identifier_start_to_meta
HasIdentifierAt(it, p) ==
    \E i \in 1..Len(it.identifier_metas) : it.identifier_metas[i].start = p

\* self.identifier_start_to_meta[p]
IdentifierAt(it, p) ==
    it.identifier_metas[CHOOSE i \in 1..Len(it.identifier_metas) :
                            it.identifier_metas[i].start = p]

\* a Python slice a[lo:hi] with 0 <= lo, 0 <= hi <= len(a)
PySlice(a, lo, hi) == IF hi <= lo THEN <<>> ELSE SubSeq(a, lo + 1, hi)

\* find_symbols_in_range(sym, start): end is None
find_symbols_from(it, sym, start) ==
    LET poses == it.symbol_to_poses[sym]
    IN  PySlice(poses, bisect_left(poses, start, 0, Len(poses)), Len(poses))

\* find_symbols_in_range(sym, start, end)
find_symbols_in_range(it, sym, start, end) ==
    LET poses == it.symbol_to_poses[sym]
    IN  PySlice(poses, bisect_left(poses, start, 0, Len(poses)),
                bisect_left(poses, end, 0, Len(poses)))

\* the for loop of find_identifier_range from index i (0-based) on
RECURSIVE IdentifierRangeFrom(_, _, _, _)
IdentifierRangeFrom(it, i, start, end) ==
    IF i >= Len(it.identifiers) THEN <<>>
    ELSE LET meta == it.identifier_metas_start_sorted[i + 1] IN
         IF meta.start >= start /\ meta.end <= end
         THEN <<meta>> \o IdentifierRangeFrom(it, i + 1, start, end)
         ELSE <<>>

\* list(find_identifier_range(start, end)); exc is the failed assert
find_identifier_range(it, start, end) ==
    LET hi == Len(it.identifiers)
        left == bisect_left(it.identifier_starts, start, 0, hi)
    IN  IF ~(end > start) THEN [exc |-> "AssertionError", res |-> <<>>]
        ELSE IF hi = 0 \/ left = hi THEN [exc |-> "None", res |-> <<>>]
        ELSE [exc |-> "None", res |-> IdentifierRangeFrom(it, left, start, end)]

\* the for loop of find_list_str_prefix from index i (0-based) on
RECURSIVE ListStrPrefixFrom(_, _, _, _)
ListStrPrefixFrom(data, i, prefix, full_match) ==
    IF i >= Len(data) THEN <<>>
    ELSE LET string == data[i + 1]
             should_break == IF full_match THEN string # prefix
                             ELSE ~StartsWith(string, prefix)
         IN  IF should_break THEN <<>>
             ELSE <<i>> \o ListStrPrefixFrom(data, i + 1, prefix, full_match)

\* list(find_list_str_prefix(data, prefix, full_match)): 0-based indices
find_list_str_prefix(data, prefix, full_match) ==
    LET hi == Len(data)
        left == bisect_left_str(data, prefix, 0, hi)
    IN  IF hi = 0 \/ left = hi THEN <<>>
        ELSE ListStrPrefixFrom(data, left, prefix, full_match)

\* list(find_identifier_prefix(prefix, full_match))
find_identifier_prefix(it, prefix, full_match) ==
    LET idx == find_list_str_prefix(it.identifiers, prefix, full_match)
    IN  [k \in 1..Len(idx) |-> it.identifier_metas[idx[k] + 1]]

\* ------------------------------------------------------------------------
\* The cursor operations.  Each takes the cursor and gives the cursor it
\* leaves, with what it returns.
\* ------------------------------------------------------------------------

move(cur, pos) == [cur EXCEPT !.pos = pos]

reset_bracket_count(cur) == [cur EXCEPT !.bracket_state = ZeroBrackets]

\* state() copies the counters; restore_state(state) installs the copy
state(cur) == cur

restore_state(cur, saved) == saved

\* inc_bracket: the counters it leaves
inc_bracket(it, cur) ==
    LET val == Ch(it.source, cur.pos) IN
    IF val \in OpenBrackets
    THEN [cur EXCEPT !.bracket_state[val] = @ + 1]
    ELSE IF val \in CloseBrackets
    THEN [cur EXCEPT !.bracket_state[end_brackets(val)] = @ - 1]
    ELSE cur

\* while self.pos < self.length: if val in self._skip_chars: self.pos += 1
RECURSIVE SkipChars(_, _)
SkipChars(s, p) ==
    IF p < Len(s) /\ Ch(s, p) \in skip_chars THEN SkipChars(s, p + 1) ELSE p

NonePair == <<>>
NoneMeta == IdentifierMeta("", NoMatch, NoMatch)

\* next_bracket that consumes the bracket alone: the cursor is left one
\* past the opening bracket
next_bracket_open_only(it, cur, bracket) ==
    LET p == SkipChars(it.source, skip_string_comment(it, cur.pos)) IN
    IF p >= Len(it.source) \/ Ch(it.source, p) # bracket
    THEN [ret |-> NonePair, cur |-> move(cur, p), exc |-> "None"]
    ELSE IF ~HasBracketPair(it, p)
    THEN [ret |-> NonePair, cur |-> move(cur, p), exc |-> "KeyError"]
    ELSE [ret |-> <<p, BracketPairAt(it, p)[3]>>, cur |-> move(cur, p + 1), exc |-> "None"]

\* next_bracket(bracket): ret is (start, end) or NonePair
next_bracket(it, cur, bracket) ==
    LET p == SkipChars(it.source, skip_string_comment(it, cur.pos)) IN
    IF p >= Len(it.source) \/ Ch(it.source, p) # bracket
    THEN [ret |-> NonePair, cur |-> move(cur, p), exc |-> "None"]
    ELSE IF ~HasBracketPair(it, p)
    THEN [ret |-> NonePair, cur |-> move(cur, p), exc |-> "KeyError"]
    ELSE [ret |-> <<p, BracketPairAt(it, p)[3]>>,
          cur |-> move(cur, BracketPairAt(it, p)[3] + 1), exc |-> "None"]

next_curly(it, cur) == next_bracket(it, cur, "{")

next_round(it, cur) == next_bracket(it, cur, "(")

\* next_identifier that, finding no identifier, steps over the character
\* it stopped at
next_identifier_stepping(it, cur) ==
    LET p == SkipChars(it.source, skip_string_comment(it, cur.pos)) IN
    IF p < Len(it.source) /\ HasIdentifierAt(it, p)
    THEN [ret |-> IdentifierAt(it, p), cur |-> move(cur, IdentifierAt(it, p).end)]
    ELSE IF p < Len(it.source) THEN [ret |-> NoneMeta, cur |-> move(cur, p + 1)]
    ELSE [ret |-> NoneMeta, cur |-> move(cur, p)]

\* next_identifier: ret is the meta or NoneMeta
next_identifier(it, cur) ==
    LET p == SkipChars(it.source, skip_string_comment(it, cur.pos)) IN
    IF p < Len(it.source) /\ HasIdentifierAt(it, p)
    THEN [ret |-> IdentifierAt(it, p), cur |-> move(cur, IdentifierAt(it, p).end)]
    ELSE [ret |-> NoneMeta, cur |-> move(cur, p)]

\* skip_identifier: the cursor after it (it returns None)
skip_identifier(it, cur) ==
    LET iden_meta == next_identifier(it, cur) IN
    IF iden_meta.ret = NoneMeta THEN iden_meta.cur
    ELSE move(iden_meta.cur, iden_meta.ret.end)

\* next_semicolon that takes whatever follows the whitespace for the ';'
next_semicolon_any(it, cur) ==
    LET p == SkipChars(it.source, skip_string_comment(it, cur.pos)) IN
    IF p < Len(it.source)
    THEN [ret |-> p, cur |-> move(cur, p)]
    ELSE [ret |-> NoMatch, cur |-> move(cur, p)]

\* next_semicolon: ret is the position of the ';' or NoMatch for None
next_semicolon(it, cur) ==
    LET p == SkipChars(it.source, skip_string_comment(it, cur.pos)) IN
    IF p < Len(it.source) /\ Ch(it.source, p) = ";"
    THEN [ret |-> p, cur |-> move(cur, p)]
    ELSE [ret |-> NoMatch, cur |-> move(cur, p)]

\* ------------------------------------------------------------------------
\* Discovery passes
\* ------------------------------------------------------------------------

ClassDef(name, keyword_pos, body_start, body_end, local_id, is_template) ==
    [name |-> name, keyword_pos |-> keyword_pos, body_start |-> body_start,
     body_end |-> body_end, local_id |-> local_id, is_template |-> is_template]

FunctionDef(name, identifier_pos, param_start, param_end, body_start, body_end, local_id, is_template) ==
    [name |-> name, identifier_pos |-> identifier_pos, param_start |-> param_start,
     param_end |-> param_end, body_start |-> body_start, body_end |-> body_end,
     local_id |-> local_id, is_template |-> is_template]

inherit_kw == {"private", "public", "protected"}

Max(a, b) == IF a > b THEN a ELSE b

\* "::".join(parts)
RECURSIVE Join(_, _)
Join(sep, parts) ==
    IF parts = <<>> THEN ""
    ELSE IF Len(parts) = 1 THEN parts[1]
    ELSE parts[1] \o sep \o Join(sep, Tail(parts))

\* The template test shared by find_all_class_def and find_function_prefix:
\* a 'template' identifier between the last ';' or '}' before start - 1 and
\* start - 1.  Both symbols lie before start - 1, so the assert of
\* find_identifier_range holds here.
IsTemplateBefore(it, start) ==
    LET prev_semicolon == find_symbols_in_range(it, ";", 0, start - 1)
        prev_curly_end == find_symbols_in_range(it, "}", 0, start - 1)
        pos1 == IF prev_semicolon # <<>> THEN Last(prev_semicolon) ELSE -1
        pos2 == IF prev_curly_end # <<>> THEN Last(prev_curly_end) ELSE -1
        idens == find_identifier_range(it, Max(pos1, pos2), start - 1).res
    IN  IF prev_semicolon # <<>> \/ prev_curly_end # <<>>
        THEN \E i \in 1..Len(idens) : idens[i].name = "template"
        ELSE FALSE

\* the class named by the last identifier whatever precedes it
ClassNameLast(idens) == Last(idens).name

\* name of the class: [:[public|protected|private]] other_class
ClassName(idens) ==
    IF Len(idens) >= 3 /\ idens[Len(idens) - 1].name \in inherit_kw
    THEN idens[Len(idens) - 2].name
    ELSE Last(idens).name

\* ClassDefBody without the test for a ';' before the '{': a forward
\* declaration takes the body of the definition that follows it
ClassDefBodyNoForward(it, meta) ==
    LET next_curlys == find_symbols_from(it, "{", meta.end)
        next_semicolons == find_symbols_from(it, ";", meta.end)
        curly == next_curlys[1]
        idens == find_identifier_range(it, meta.end, curly)
    IN  IF next_curlys = <<>> THEN [exc |-> "None", yields |-> <<>>]
        ELSE IF next_semicolons = <<>> THEN [exc |-> "None", yields |-> <<>>]
        ELSE IF ~HasBracketPair(it, curly) THEN [exc |-> "KeyError", yields |-> <<>>]
        ELSE IF idens.exc # "None" THEN [exc |-> idens.exc, yields |-> <<>>]
        ELSE IF idens.res = <<>> THEN [exc |-> "None", yields |-> <<>>]
        ELSE [exc |-> "None",
              yields |-> <<ClassDef(ClassName(idens.res), meta.start, curly,
                                    BracketPairAt(it, curly)[3], "",
                                    IsTemplateBefore(it, meta.start))>>]

\* One iteration of the loop of find_all_class_def, after the reset and
\* move: what it yields (yields), or the exception it raises.
ClassDefBody(it, meta) ==
    LET next_curlys == find_symbols_from(it, "{", meta.end)
        next_semicolons == find_symbols_from(it, ";", meta.end)
        curly == next_curlys[1]
        idens == find_identifier_range(it, meta.end, curly)
    IN  IF next_curlys = <<>> THEN [exc |-> "None", yields |-> <<>>]
        ELSE IF next_semicolons = <<>> THEN [exc |-> "None", yields |-> <<>>]
        ELSE IF next_semicolons[1] < curly THEN [exc |-> "None", yields |-> <<>>]
        ELSE IF ~HasBracketPair(it, curly) THEN [exc |-> "KeyError", yields |-> <<>>]
        ELSE IF idens.exc # "None" THEN [exc |-> idens.exc, yields |-> <<>>]
        ELSE IF idens.res = <<>> THEN [exc |-> "None", yields |-> <<>>]
        ELSE [exc |-> "None",
              yields |-> <<ClassDef(ClassName(idens.res), meta.start, curly,
                                    BracketPairAt(it, curly)[3], "",
                                    IsTemplateBefore(it, meta.start))>>]

\* the loop of find_all_class_def over metas[i..], consumed to its end
RECURSIVE ClassDefLoop(_, _, _, _, _)
ClassDefLoop(it, metas, i, cur, res) ==
    IF i > Len(metas) THEN [exc |-> "None", res |-> res, cur |-> cur]
    ELSE LET cur1 == move(reset_bracket_count(cur), metas[i].end) IN
         With(ClassDefBody(it, metas[i]), LAMBDA body :
             IF body.exc # "None" THEN [exc |-> body.exc, res |-> <<>>, cur |-> cur1]
             ELSE ClassDefLoop(it, metas, i + 1, cur1, res \o body.yields))

\* list(self.find_all_class_def()) called with the cursor at cur
find_all_class_def(it, cur) ==
    ClassDefLoop(it,
                 find_identifier_prefix(it, "class", TRUE)
                     \o find_identifier_prefix(it, "struct", TRUE),
                 1, cur, <<>>)

\* next(g) for the generator g = self.find_all_class_def() that has
\* examined metas[1..i-1], with the cursor at cur: the loop runs from
\* metas[i] to its next yield (exc "None", one ClassDef in yields, at the
\* index of its keyword), to the end (StopIteration) or to an exception
RECURSIVE ClassDefNext(_, _, _, _)
ClassDefNext(it, metas, i, cur) ==
    IF i > Len(metas) THEN [exc |-> "StopIteration", yields |-> <<>>, cur |-> cur, at |-> i]
    ELSE LET cur1 == move(reset_bracket_count(cur), metas[i].end) IN
         With(ClassDefBody(it, metas[i]), LAMBDA body :
             IF body.exc # "None" \/ body.yields # <<>>
             THEN [exc |-> body.exc, yields |-> body.yields, cur |-> cur1, at |-> i]
             ELSE ClassDefNext(it, metas, i + 1, cur1))

\* the first loop of get_namespace_ranges over metas[i..]
RECURSIVE NamespaceLoop(_, _, _, _, _)
NamespaceLoop(it, metas, i, cur, res) ==
    IF i > Len(metas) THEN [exc |-> "None", res |-> res, cur |-> cur]
    ELSE LET cur1 == move(reset_bracket_count(cur), metas[i].end) IN
         With(next_identifier(it, cur1), LAMBDA iden :
         With(next_curly(it, move(iden.cur, iden.ret.end)), LAMBDA pair :
             IF iden.ret = NoneMeta THEN NamespaceLoop(it, metas, i + 1, iden.cur, res)
             ELSE IF pair.exc # "None" THEN [exc |-> pair.exc, res |-> <<>>, cur |-> pair.cur]
             ELSE IF pair.ret = NonePair THEN NamespaceLoop(it, metas, i + 1, pair.cur, res)
             ELSE NamespaceLoop(it, metas, i + 1, pair.cur,
                                Append(res, <<iden.ret.name, pair.ret[1],
                                              BracketPairAt(it, pair.ret[1])[3]>>))))

\* get_namespace_ranges(class_defs) called with the cursor at cur
get_namespace_ranges(it, class_defs, cur) ==
    With(NamespaceLoop(it, find_identifier_prefix(it, "namespace", TRUE), 1, cur, <<>>),
         LAMBDA ns :
        IF ns.exc # "None" THEN ns
        ELSE [exc |-> "None",
              res |-> ns.res \o [i \in 1..Len(class_defs) |->
                          <<class_defs[i].name, class_defs[i].body_start,
                            class_defs[i].body_end>>],
              cur |-> restore_state(ns.cur, state(cur))])

\* EnclosingNames with the innermost range alone
EnclosingNamesNearest(it, a, b) ==
    LET inside == SelectSeq(it.namespace_ranges, LAMBDA r : a > r[2] /\ b < r[3])
    IN  IF inside = <<>> THEN <<>> ELSE <<Last(inside)[1]>>

\* EnclosingNames with the innermost range first
EnclosingNamesReversed(it, a, b) ==
    LET inside == SelectSeq(it.namespace_ranges, LAMBDA r : a > r[2] /\ b < r[3])
    IN  [i \in 1..Len(inside) |-> inside[Len(inside) + 1 - i][1]]

\* the names of the ranges of self._namespace_ranges, in list order, with
\* a after their start and b before their end
EnclosingNames(it, a, b) ==
    LET inside == SelectSeq(it.namespace_ranges, LAMBDA r : a > r[2] /\ b < r[3])
    IN  [i \in 1..Len(inside) |-> inside[i][1]]

\* UpdateLoop with the nearest enclosing range alone in the id
RECURSIVE UpdateLoopNearest(_, _, _, _)
UpdateLoopNearest(it, class_defs, i, dict) ==
    IF i > Len(class_defs) THEN [class_defs |-> class_defs, local_id_to_cdef |-> dict]
    ELSE LET cdef == class_defs[i]
             namespaces == EnclosingNames(it, cdef.body_start, cdef.body_end)
             nearest == IF namespaces = <<>> THEN <<>> ELSE <<Last(namespaces)>>
             local_id == Join("::", Append(nearest, cdef.name))
             updated == [cdef EXCEPT !.local_id = local_id]
         IN  UpdateLoopNearest(it, [class_defs EXCEPT ![i] = updated], i + 1,
                               (local_id :> i) @@ dict)

\* the loop of _update_class_def_namespace over class_defs[i..]
RECURSIVE UpdateLoop(_, _, _, _)
UpdateLoop(it, class_defs, i, dict) ==
    IF i > Len(class_defs) THEN [class_defs |-> class_defs, local_id_to_cdef |-> dict]
    ELSE LET cdef == class_defs[i]
             namespaces == EnclosingNames(it, cdef.body_start, cdef.body_end)
             local_id == Join("::", Append(namespaces, cdef.name))
             updated == [cdef EXCEPT !.local_id = local_id]
         IN  UpdateLoop(it, [class_defs EXCEPT ![i] = updated], i + 1,
                        (local_id :> i) @@ dict)

\* _update_class_def_namespace: the class defs with their local ids, and
\* local_id_to_cdef as a map from local id to the index (1-based) of the
\* ClassDef object in self._class_defs
_update_class_def_namespace(it, class_defs) ==
    UpdateLoop(it, class_defs, 1, <<>>)

\* `iden not in func_attr_kw` of find_function_prefix tests the
\* IdentifierMeta object itself against a set of strings: an object that
\* defines neither __eq__ nor __hash__ is in no set of strings
MetaInStrSet(iden, strs) == FALSE

func_attr_kw == {"const", "override", "final"}

\* One iteration of the loop of find_function_prefix: the FunctionDefs it
\* appends (appends), the cursor it leaves, the exception it raises.
FunctionBody(it, meta0, cur, find_after, decl_only) ==
    LET cur1 == move(reset_bracket_count(cur), meta0.end) IN
    With(next_identifier(it, cur1), LAMBDA after :
    LET meta == IF find_after THEN after.ret ELSE meta0
        cur2 == IF find_after THEN move(reset_bracket_count(after.cur), meta.end) ELSE cur1
        is_template == IsTemplateBefore(it, meta.start)
        namespaces == EnclosingNames(it, meta.start, meta.end)
        func_id == Join("::", Append(namespaces, meta.name))
    IN  With(next_round(it, cur2), LAMBDA round_pair :
        With(next_identifier(it, round_pair.cur), LAMBDA iden :
        With(next_curly(it, iden.cur), LAMBDA curly_pair :
        With(next_semicolon(it, curly_pair.cur), LAMBDA next_semi :
        IF find_after /\ after.ret = NoneMeta
        THEN [exc |-> "None", appends |-> <<>>, cur |-> after.cur]
        ELSE IF round_pair.exc # "None"
        THEN [exc |-> round_pair.exc, appends |-> <<>>, cur |-> round_pair.cur]
        ELSE IF round_pair.ret = NonePair
        THEN [exc |-> "None", appends |-> <<>>, cur |-> round_pair.cur]
        ELSE IF iden.ret # NoneMeta /\ ~MetaInStrSet(iden.ret, func_attr_kw)
        THEN [exc |-> "None", appends |-> <<>>, cur |-> iden.cur]
        ELSE IF curly_pair.exc # "None"
        THEN [exc |-> curly_pair.exc, appends |-> <<>>, cur |-> curly_pair.cur]
        ELSE IF curly_pair.ret = NonePair
        THEN IF decl_only
             THEN [exc |-> "None",
                   appends |-> IF next_semi.ret # NoMatch
                               THEN <<FunctionDef(meta.name, meta.start, round_pair.ret[1],
                                                  round_pair.ret[2], -1, -1, func_id,
                                                  is_template)>>
                               ELSE <<>>,
                   cur |-> next_semi.cur]
             ELSE [exc |-> "None", appends |-> <<>>, cur |-> curly_pair.cur]
        ELSE [exc |-> "None",
              appends |-> <<FunctionDef(meta.name, meta.start, round_pair.ret[1],
                                        round_pair.ret[2], curly_pair.ret[1],
                                        curly_pair.ret[2], func_id, is_template)>>,
              cur |-> curly_pair.cur])))))

\* the loop of find_function_prefix over metas[i..]
RECURSIVE FunctionLoop(_, _, _, _, _, _, _)
FunctionLoop(it, metas, i, cur, res, find_after, decl_only) ==
    IF i > Len(metas) THEN [exc |-> "None", res |-> res, cur |-> cur]
    ELSE With(FunctionBody(it, metas[i], cur, find_after, decl_only), LAMBDA body :
         IF body.exc # "None" THEN [exc |-> body.exc, res |-> <<>>, cur |-> body.cur]
         ELSE FunctionLoop(it, metas, i + 1, body.cur, res \o body.appends,
                           find_after, decl_only))

\* find_function_prefix(prefix, find_after, full_match, decl_only) called
\* with the cursor at cur
find_function_prefix(it, cur, prefix, find_after, full_match, decl_only) ==
    With(FunctionLoop(it, find_identifier_prefix(it, prefix, full_match), 1,
                      cur, <<>>, find_after, decl_only), LAMBDA loop :
        IF loop.exc # "None" THEN loop
        ELSE [exc |-> "None", res |-> loop.res, cur |-> restore_state(loop.cur, state(cur))])

\* the loop of find_marked_identifier without its reset and move: each
\* iteration reads on from where the last one stopped
RECURSIVE MarkedLoopNoMove(_, _, _, _, _)
MarkedLoopNoMove(it, metas, i, cur, res) ==
    IF i > Len(metas) THEN [exc |-> "None", res |-> res, cur |-> cur]
    ELSE With(next_identifier(it, cur), LAMBDA iden :
         LET meta == iden.ret
             namespaces == EnclosingNames(it, meta.start, meta.start)
         IN  IF meta = NoneMeta THEN MarkedLoopNoMove(it, metas, i + 1, iden.cur, res)
             ELSE MarkedLoopNoMove(it, metas, i + 1, iden.cur,
                                   Append(res, <<meta.name, Join("::", namespaces)>>)))

\* the loop of find_marked_identifier over metas[i..]
RECURSIVE MarkedLoop(_, _, _, _, _)
MarkedLoop(it, metas, i, cur, res) ==
    IF i > Len(metas) THEN [exc |-> "None", res |-> res, cur |-> cur]
    ELSE LET cur1 == move(reset_bracket_count(cur), metas[i].end) IN
         With(next_identifier(it, cur1), LAMBDA iden :
         LET meta == iden.ret
             namespaces == EnclosingNames(it, meta.start, meta.start)
         IN  IF meta = NoneMeta THEN MarkedLoop(it, metas, i + 1, iden.cur, res)
             ELSE MarkedLoop(it, metas, i + 1, iden.cur,
                             Append(res, <<meta.name, Join("::", namespaces)>>)))

\* find_marked_identifier(mark) called with the cursor at cur
find_marked_identifier(it, cur, mark) ==
    With(MarkedLoop(it, find_identifier_prefix(it, mark, TRUE), 1, cur, <<>>),
         LAMBDA loop :
        [exc |-> "None", res |-> loop.res, cur |-> restore_state(loop.cur, state(cur))])

\* ------------------------------------------------------------------------
\* CppSourceIterator.__init__
\* ------------------------------------------------------------------------

\* The iterator __init__ builds from a source: exc is "None" and the fields
\* are those of the object, or exc is the exception that ends __init__ and
\* no object exists.
Construct(src) ==
    With(TokenIndices(src), LAMBDA it0 :
    With(_init_bracket_analysis(it0), LAMBDA ba :
    LET it1 == [source |-> it0.source, tokens |-> it0.tokens,
                ignore_ranges |-> it0.ignore_ranges, ignore_starts |-> it0.ignore_starts,
                identifier_metas |-> it0.identifier_metas,
                identifiers |-> it0.identifiers,
                identifier_metas_start_sorted |-> it0.identifier_metas_start_sorted,
                identifier_starts |-> it0.identifier_starts,
                bracket_pairs |-> SortBySecond(ba.pairs),
                symbol_to_poses |-> ba.poses,
                namespace_ranges |-> <<>>]
        failed(exc, char, at) ==
            [exc |-> exc, char |-> char, at |-> at, it |-> it0, cur |-> Cursor(0, ZeroBrackets),
             class_defs |-> <<>>, local_id_to_cdef |-> <<>>]
    IN  With(find_all_class_def(it1, Cursor(ba.pos, ZeroBrackets)), LAMBDA cd :
        With(get_namespace_ranges(it1, cd.res, cd.cur), LAMBDA nr :
        LET it2 == [it1 EXCEPT !.namespace_ranges = SortBySecond(nr.res)]
            upd == _update_class_def_namespace(it2, cd.res)
        IN  IF ba.exc # "None" THEN failed(ba.exc, ba.char, ba.at)
            ELSE IF cd.exc # "None" THEN failed(cd.exc, "", NoMatch)
            ELSE IF nr.exc # "None" THEN failed(nr.exc, "", NoMatch)
            ELSE [exc |-> "None", char |-> "", at |-> NoMatch, it |-> it2, cur |-> nr.cur,
                  class_defs |-> upd.class_defs,
                  local_id_to_cdef |-> upd.local_id_to_cdef]))))

\* ------------------------------------------------------------------------
\* _parse_sources_get_pybind (core.py): the classification of the marked
\* functions of one source
\* ------------------------------------------------------------------------

\* the position of the first "::" of s at or after p, or NoMatch
RECURSIVE FindSep(_, _)
FindSep(s, p) ==
    IF p + 2 > Len(s) THEN NoMatch
    ELSE IF Slice(s, p, p + 2) = "::" THEN p
    ELSE FindSep(s, p + 1)

\* s.split("::")
RECURSIVE Split(_)
Split(s) ==
    IF FindSep(s, 0) = NoMatch THEN <<s>>
    ELSE <<Slice(s, 0, FindSep(s, 0))>> \o Split(Slice(s, FindSep(s, 0) + 2, Len(s)))

\* "::".join(parts[:-1])
ParentId(func_id) ==
    Join("::", SubSeq(Split(func_id), 1, Len(Split(func_id)) - 1))

\* the classes dict, in insertion order
HasClass(classes, key) == \E i \in 1..Len(classes) : classes[i].key = key

ClassIndex(classes, key) == CHOOSE i \in 1..Len(classes) : classes[i].key = key

\* cls_local_id of a ClassDef: its local id, with "<>" for a template
ClsLocalId(cdef) == IF cdef.is_template THEN cdef.local_id \o "<>" ELSE cdef.local_id

\* the loop over all_cls_init_defs[i..]: inits[i] is <<FunctionDef, is_shared>>
RECURSIVE InitLoop(_, _, _, _, _)
InitLoop(class_defs, dict, inits, i, classes) ==
    IF i > Len(inits) THEN [exc |-> "None", classes |-> classes]
    ELSE LET func_id == inits[i][1].local_id
             ns_func_id == ParentId(func_id)
             cdef == class_defs[dict[ns_func_id]]
             key == ClsLocalId(cdef)
             classes1 == IF HasClass(classes, key) THEN classes
                         ELSE Append(classes,
                                     [key |-> key, inits |-> <<>>, methods |-> <<>>,
                                      public_props |-> <<>>,
                                      is_template |-> cdef.is_template,
                                      is_shared |-> inits[i][2]])
             k == ClassIndex(classes1, key)
         IN  IF ns_func_id \notin DOMAIN dict
             THEN [exc |-> "AssertionError", classes |-> classes]
             ELSE InitLoop(class_defs, dict, inits, i + 1,
                           [classes1 EXCEPT ![k].inits =
                                Append(@, key \o "::" \o Last(Split(func_id)))])

\* MethodLoop with no look at the parent id: every marked function is
\* taken for a free function
RECURSIVE MethodLoopFree(_, _, _, _, _, _)
MethodLoopFree(class_defs, dict, funcs, i, classes, outside) ==
    IF i > Len(funcs) THEN [exc |-> "None", classes |-> classes, outside |-> outside]
    ELSE MethodLoopFree(class_defs, dict, funcs, i + 1, classes,
                        Append(outside, <<funcs[i].local_id, funcs[i].is_template>>))

\* the loop over all_func_defs[i..]
RECURSIVE MethodLoop(_, _, _, _, _, _)
MethodLoop(class_defs, dict, funcs, i, classes, outside) ==
    IF i > Len(funcs) THEN [exc |-> "None", classes |-> classes, outside |-> outside]
    ELSE LET func_id == funcs[i].local_id
             parts == Split(func_id)
             ns_func_id == ParentId(func_id)
             key == ClsLocalId(class_defs[dict[ns_func_id]])
         IN  IF Len(parts) = 1 \/ ns_func_id \notin DOMAIN dict
             THEN MethodLoop(class_defs, dict, funcs, i + 1, classes,
                             Append(outside, <<func_id, funcs[i].is_template>>))
             ELSE IF ~HasClass(classes, key)
             THEN [exc |-> "AssertionError", classes |-> classes, outside |-> outside]
             ELSE MethodLoop(class_defs, dict, funcs, i + 1,
                             [classes EXCEPT ![ClassIndex(classes, key)].methods =
                                  Append(@, key \o "::" \o Last(parts))],
                             outside)

\* the loop over all_marked_props[i..]: props[i] is <<name, ns>>
RECURSIVE PropLoop(_, _, _, _, _)
PropLoop(class_defs, dict, props, i, classes) ==
    IF i > Len(props) THEN [exc |-> "None", classes |-> classes]
    ELSE LET ns == props[i][2]
             key == ClsLocalId(class_defs[dict[ns]])
         IN  IF ns \notin DOMAIN dict
             THEN PropLoop(class_defs, dict, props, i + 1, classes)
             ELSE IF ~HasClass(classes, key)
             THEN [exc |-> "AssertionError", classes |-> classes]
             ELSE PropLoop(class_defs, dict, props, i + 1,
                           [classes EXCEPT ![ClassIndex(classes, key)].public_props =
                                Append(@, props[i][1])])

\* The body of the loop over source_paths for the source src: siter is
\* built from it and the passes run; classes and outside are the classes
\* dict and outside_methods as the earlier paths left them.
ParsePath(src, classes, outside, export_kw, export_init_kw, export_init_shared_kw, export_prop_kw) ==
    With(Construct(src), LAMBDA siter :
    LET failed(exc, c) == [exc |-> exc, classes |-> <<>>, outside_methods |-> <<>>,
                           has_export |-> FALSE, funcs |-> <<>>, cur |-> c]
    IN
    IF siter.exc # "None" THEN failed(siter.exc, siter.cur)
    ELSE
    With(find_function_prefix(siter.it, siter.cur, export_kw, TRUE, TRUE, TRUE), LAMBDA funcs :
    With(find_function_prefix(siter.it, funcs.cur, export_init_kw, TRUE, TRUE, TRUE),
         LAMBDA inits :
    With(find_function_prefix(siter.it, inits.cur, export_init_shared_kw, TRUE, TRUE, TRUE),
         LAMBDA shared :
    With(find_marked_identifier(siter.it, shared.cur, export_prop_kw), LAMBDA props :
    LET all_inits == [i \in 1..Len(inits.res) |-> <<inits.res[i], FALSE>>]
                     \o [i \in 1..Len(shared.res) |-> <<shared.res[i], TRUE>>]
        class_defs == siter.class_defs
        dict == siter.local_id_to_cdef
    IN  With(InitLoop(class_defs, dict, all_inits, 1, classes), LAMBDA l1 :
        With(MethodLoop(class_defs, dict, funcs.res, 1, l1.classes, outside), LAMBDA l2 :
        With(PropLoop(class_defs, dict, props.res, 1, l2.classes), LAMBDA l3 :
        IF funcs.exc # "None" THEN failed(funcs.exc, funcs.cur)
        ELSE IF inits.exc # "None" THEN failed(inits.exc, inits.cur)
        ELSE IF shared.exc # "None" THEN failed(shared.exc, shared.cur)
        ELSE IF l1.exc # "None" THEN failed(l1.exc, props.cur)
        ELSE IF l2.exc # "None" THEN failed(l2.exc, props.cur)
        ELSE IF l3.exc # "None" THEN failed(l3.exc, props.cur)
        ELSE [exc |-> "None", classes |-> l3.classes, outside_methods |-> l2.outside,
              has_export |-> funcs.res # <<>> \/ all_inits # <<>>,
              funcs |-> funcs.res, cur |-> props.cur]))))))))

\* the loop `for path in source_paths` over source_contents[i..]: acc holds
\* classes, outside_methods and path_has_export (the indices of the paths
\* with an export), which are made once before the loop, and all_func_defs
\* (funcs) and the cursor of siter (cur) of the path before
RECURSIVE PathLoop(_, _, _, _)
PathLoop(source_contents, i, acc, kw) ==
    IF i > Len(source_contents) THEN acc
    ELSE With(ParsePath(source_contents[i], acc.classes, acc.outside_methods,
                        kw[1], kw[2], kw[3], kw[4]), LAMBDA r :
             IF r.exc # "None"
             THEN [exc |-> r.exc, classes |-> <<>>, outside_methods |-> <<>>,
                   path_has_export |-> <<>>, funcs |-> <<>>, cur |-> r.cur]
             ELSE PathLoop(source_contents, i + 1,
                           [exc |-> "None", classes |-> r.classes,
                            outside_methods |-> r.outside_methods,
                            path_has_export |-> acc.path_has_export
                                \o (IF r.has_export THEN <<i>> ELSE <<>>),
                            funcs |-> r.funcs, cur |-> r.cur],
                           kw))

\* _parse_sources_get_pybind up to the generation of the binding code:
\* source_contents is the sequence of the sources of source_paths
_parse_sources_get_pybind(source_contents, export_kw, export_init_kw, export_init_shared_kw, export_prop_kw) ==
    PathLoop(source_contents, 1,
             [exc |-> "None", classes |-> <<>>, outside_methods |-> <<>>,
              path_has_export |-> <<>>, funcs |-> <<>>, cur |-> Cursor(0, ZeroBrackets)],
             <<export_kw, export_init_kw, export_init_shared_kw, export_prop_kw>>)

\* ------------------------------------------------------------------------
\* Bounds and inputs
\* ------------------------------------------------------------------------

\* the strings made of at most n elements of V, concatenated
RECURSIVE Concats(_, _)
Concats(V, n) ==
    IF n = 0 THEN {""}
    ELSE {""} \cup { v \o w : v \in V, w \in Concats(V, n - 1) }

\* sources of brackets, with a string and a comment that hold a bracket
MaxBrackets == 4
BracketLexemes == {"(", ")", "[", "]", "{", "}", "\"}\"", "/*(*/"}

\* sources of raw string literals and the characters that end them
MaxRawPieces == 4
RawLexemes == {"R\"d(", "LR\"d(", "u8R\"(", ")d\"", "\"", ")", "a", " "}

\* sources of comment openers and closers, quotes and line ends
MaxCommentPieces == 4
CommentLexemes == {"//", "/*", "*/", "\"", "\n", "a"}

\* sources with symbols inside and outside comments and literals that
\* touch each other or whitespace
AdjacentSources ==
    {"( /*)*/\"{\" ) ;/*;*/ :", " \"[\"/*]*/ \"<\";| //>", "'('\"|\" [ ]/*:*/"}

\* an R, a quote and a vertical tab before the '(': \x0B is no character
\* of a delimiter, so no raw string starts at the R
DelimSources ==
    {"R\"" \o VerticalTab \o "(a)" \o VerticalTab \o "\" b;",
     "( R\"" \o VerticalTab \o "()]" \o VerticalTab \o "\" )"}

LexSources ==
    Concats(BracketLexemes, MaxBrackets) \cup Concats(RawLexemes, MaxRawPieces)
        \cup Concats(CommentLexemes, MaxCommentPieces) \cup AdjacentSources
        \cup DelimSources

\* sources of declarations: the scenarios of the specification and
\* variants of them, and every sequence of a few items
MaxItems == 3
ScanItems == {"class A", "struct B", "namespace n", "{", "}", ";",
              " M f()", " I A()", "template<class T>", " P x"}

ScenarioSources ==
    {"struct{};", "class{};",
     "class Bar; class Bar { };",
     "class Outer { namespace inner { class Inner { }; } };",
     "namespace inner { class Outer { class Inner { }; }; }",
     "class Foo { public: I Foo(int); int M add(int); };",
     "class Foo { public: int M add(int); };",
     "namespace n { int M add(int); } int M sub(int) { }",
     "template <class T> T MARK_add(T a, T b) { return a + b; }",
     ";template <class T> T MARK_add(T a, T b) { return a + b; }",
     "template <class T> struct X { I X(); M f(); };",
     "class A { }; class B : public A { I B(); P x; M g() { } };",
     "/* class A { }; */ struct B { }; // namespace n { M f(); P x; }",
     "char* s = \"struct C { I C(); };\"; namespace n { }",
     "M f() const { } M g() x { } M h() override;",
     "namespace n { class A { P x; }; } P y; P",
     "struct D : private A { }; class public E { };",
     "namespace a /*c*/ { } namespace b { class F { }; }",
     "namespace n { struct S { M f(); }; M g() { } } M h();"}

ScanSources == ScenarioSources \cup Concats(ScanItems, MaxItems)

\* sources for the cursor: short ones, so that every position is tried
CursorSources ==
    {"class A{I A();M f();};",
     "class A;class A{};",
     "namespace n{struct B{P x;};}",
     "M f(){} M g();",
     "/*(*/ class A { M f(); };",
     "struct{};M f[0]();"}

\* sources for the next_* steps: whitespace, comments and literals
\* between the cursor and an identifier, a bracket or a ';'
StepSources ==
    {"f( \"a)\" ) { }",
     "a /*c*/ b;",
     "/*c*/ ( ) ;",
     " /*c*/{ }",
     "x \"s\"; [ ]",
     "a //c\n ;"}

\* sources for snapshots of the cursor: short, with one kind of bracket
SnapSources == {"(a);", "M f();", "class A;"}

\* sources for the generator of find_all_class_def: it yields twice, or
\* passes over a declaration between two yields, or yields nothing
GenSources ==
    {"class A{};class B{};", "struct S { }; class C; class D { };", "class A;",
     "class A { }; class B : public A { I B(); P x; M g() { } };"}

\* the markers and the queries the passes are called with
\* the sources of a second path of _parse_sources_get_pybind
MorePathSources == {"class A { I A() {} };", "class A { P int x; M f(); };"}

\* source_paths whose first source is src
SourcePaths(src) == {<<src>>} \cup {<<src, more>> : more \in MorePathSources}

ExportKw == "M"
ExportInitKw == "I"
ExportInitSharedKw == "S"
ExportPropKw == "P"

Booleans == {TRUE, FALSE}

FunctionQueries ==
    ({"M"} \X Booleans \X Booleans \X Booleans) \cup {<<"MARK_", FALSE, FALSE, FALSE>>}

Marks == {"P", "M"}

\* the counters inc_bracket may reach
MaxCount == 1

\* ------------------------------------------------------------------------
\* BuildMeta (buildmeta.py): flags, includes and libraries, and their merge
\* ------------------------------------------------------------------------

\* The BuildMeta objects are a, b and the result r of a merge.  A dict of
\* flags maps a compiler to a list; a list is an object of its own, which
\* two dicts can hold at once.  An entry of a dict is: no key ("absent"),
\* a list this dict alone holds, with its contents val ("own"), or the
\* very list that the dict `field` of the object `obj` holds under the
\* same key ("same").
Compilers == {"gcc", "clang"}
MetaNames == {"a", "b", "r"}

NoList == [kind |-> "absent", val |-> <<>>, obj |-> "", field |-> ""]
OwnList(v) == [kind |-> "own", val |-> v, obj |-> "", field |-> ""]
SameList(obj, field) == [kind |-> "same", val |-> <<>>, obj |-> obj, field |-> field]
EmptyDict == [k \in Compilers |-> NoList]

\* k in d
HasKey(d, k) == d[k].kind # "absent"

\* the dict `field` of the object named name
DictAt(m, name, field) ==
    IF field = "compiler_to_ldflags" THEN m[name].compiler_to_ldflags
    ELSE m[name].cflags_node[field]

\* the contents of the list the entry e stands for under the key k
ListAt(m, e, k) == IF e.kind = "same" THEN DictAt(m, e.obj, e.field)[k].val ELSE e.val

\* the dict `field` of the object named name as an expression reads it:
\* its keys, each with the list object held under it
ReadDict(m, name, field) ==
    [k \in Compilers |->
        IF DictAt(m, name, field)[k].kind = "own" THEN SameList(name, field)
        ELSE DictAt(m, name, field)[k]]

\* _unique_list_keep_order(seq)
RECURSIVE _unique_list_keep_order(_)
_unique_list_keep_order(seq) ==
    IF seq = <<>> THEN <<>>
    ELSE LET front == _unique_list_keep_order(SubSeq(seq, 1, Len(seq) - 1))
         IN  IF \E i \in 1..Len(front) : front[i] = seq[Len(seq)]
             THEN front ELSE Append(front, seq[Len(seq)])

\* group_dict_by_split(data) for keys that hold no ',': a new list for
\* every key, extended by the list of data
group_dict_by_split(m, data) ==
    [k \in Compilers |-> IF HasKey(data, k) THEN OwnList(ListAt(m, data[k], k)) ELSE NoList]

\* _merge_compiler_to_flags(this, other): res_cflags[k] = this[k] and
\* res_cflags[k] = other[k] store the list of the operand itself
_merge_compiler_to_flags(m, this, other) ==
    [k \in Compilers |->
        IF HasKey(this, k) /\ ~HasKey(other, k) THEN this[k]
        ELSE IF ~HasKey(this, k) /\ HasKey(other, k) THEN other[k]
        ELSE IF HasKey(this, k) /\ HasKey(other, k)
        THEN OwnList(_unique_list_keep_order(ListAt(m, this[k], k) \o ListAt(m, other[k], k)))
        ELSE NoList]

CFlagsNode(public_flags, private_flags, global_flags) ==
    [public_flags |-> public_flags, private_flags |-> private_flags,
     global_flags |-> global_flags]

IncludesNode(public_incs, private_incs, global_incs) ==
    [public_incs |-> public_incs, private_incs |-> private_incs, global_incs |-> global_incs]

_merge_type_to_cflags(m, this, other) ==
    CFlagsNode(_merge_compiler_to_flags(m, this.public_flags, other.public_flags),
               _merge_compiler_to_flags(m, this.private_flags, other.private_flags),
               _merge_compiler_to_flags(m, this.global_flags, other.global_flags))

_inherit_type_to_cflags(m, this, other) ==
    CFlagsNode(_merge_compiler_to_flags(m, this.public_flags, other.public_flags),
               this.private_flags, EmptyDict)

\* list + list makes a new list
_merge_include_node(this, other) ==
    IncludesNode(this.public_incs \o other.public_incs,
                 this.private_incs \o other.private_incs,
                 this.global_incs \o other.global_incs)

_inherit_include_node(this, other) ==
    IncludesNode(this.public_incs \o other.public_incs, this.private_incs, <<>>)

\* the CFlagsNode of the object named name as an expression reads it
ReadCFlags(m, name) ==
    CFlagsNode(ReadDict(m, name, "public_flags"), ReadDict(m, name, "private_flags"),
               ReadDict(m, name, "global_flags"))

\* BuildMeta.__init__ with compiler_to_cflags None and the two nodes given
BuildMetaInit(m, includes, libpaths, libraries, compiler_to_ldflags, cflags_node, include_node) ==
    [libpaths |-> libpaths,
     libraries |-> libraries,
     compiler_to_ldflags |-> group_dict_by_split(m, compiler_to_ldflags),
     cflags_node |-> _merge_type_to_cflags(m,
                         CFlagsNode(EmptyDict, EmptyDict, group_dict_by_split(m, EmptyDict)),
                         cflags_node),
     include_node |-> _merge_include_node(IncludesNode(<<>>, <<>>, includes), include_node)]

\* BuildMeta(includes, libpaths, libraries, compiler_to_cflags,
\* compiler_to_ldflags): the nodes are None
BuildMetaNew(includes, libpaths, libraries, compiler_to_cflags, compiler_to_ldflags) ==
    [libpaths |-> libpaths,
     libraries |-> libraries,
     compiler_to_ldflags |-> compiler_to_ldflags,
     cflags_node |-> CFlagsNode(EmptyDict, EmptyDict, compiler_to_cflags),
     include_node |-> IncludesNode(<<>>, <<>>, includes)]

\* self + other, for the objects named self and other
__add__(m, self_, other) ==
    BuildMetaInit(m, <<>>, m[self_].libpaths \o m[other].libpaths,
                  _unique_list_keep_order(m[self_].libraries \o m[other].libraries),
                  _merge_compiler_to_flags(m, ReadDict(m, self_, "compiler_to_ldflags"),
                                           ReadDict(m, other, "compiler_to_ldflags")),
                  _merge_type_to_cflags(m, ReadCFlags(m, self_), ReadCFlags(m, other)),
                  _merge_include_node(m[self_].include_node, m[other].include_node))

\* self.inherit(other)
inherit(m, self_, other) ==
    BuildMetaInit(m, <<>>, m[self_].libpaths \o m[other].libpaths,
                  _unique_list_keep_order(m[self_].libraries \o m[other].libraries),
                  EmptyDict,
                  _inherit_type_to_cflags(m, ReadCFlags(m, self_), ReadCFlags(m, other)),
                  _inherit_include_node(m[self_].include_node, m[other].include_node))

\* The dict `field` of the object named name once the object named owner
\* has a new list under every key that other holds too: a list of owner
\* that name holds under such a key is from then on held by name alone.
UnsharedDict(m, name, field, owner, other) ==
    [k \in Compilers |->
        IF /\ DictAt(m, name, field)[k].kind = "same"
           /\ DictAt(m, name, field)[k].obj = owner
           /\ HasKey(DictAt(m, other, DictAt(m, name, field)[k].field), k)
        THEN OwnList(ListAt(m, DictAt(m, name, field)[k], k))
        ELSE DictAt(m, name, field)[k]]

Unshared(m, name, owner, other) ==
    [m[name] EXCEPT
        !.compiler_to_ldflags = UnsharedDict(m, name, "compiler_to_ldflags", owner, other),
        !.cflags_node = CFlagsNode(UnsharedDict(m, name, "public_flags", owner, other),
                                   UnsharedDict(m, name, "private_flags", owner, other),
                                   UnsharedDict(m, name, "global_flags", owner, other))]

\* self += other: the nodes of self are replaced by the merged ones, the
\* dict of linker flags is updated with the merged one, and libpaths and
\* libraries are extended in place (nothing is made unique)
__iadd__(m, self_, other) ==
    [n \in MetaNames |->
        IF n = self_
        THEN [libpaths |-> m[self_].libpaths \o m[other].libpaths,
              libraries |-> m[self_].libraries \o m[other].libraries,
              compiler_to_ldflags |->
                  _merge_compiler_to_flags(m, m[self_].compiler_to_ldflags,
                                           ReadDict(m, other, "compiler_to_ldflags")),
              cflags_node |-> _merge_type_to_cflags(m, m[self_].cflags_node,
                                                    ReadCFlags(m, other)),
              include_node |-> _merge_include_node(m[self_].include_node,
                                                   m[other].include_node)]
        ELSE Unshared(m, n, self_, other)]

\* flags[comp].extend(cflags) for the entry e of a dict of cflags of the
\* object named name: the list grows in the dict that owns it
ExtendFlags(m, name, field, comp, flag) ==
    LET e == m[name].cflags_node[field][comp] IN
    IF e.kind = "absent"
    THEN [m EXCEPT ![name].cflags_node[field][comp] = OwnList(<<flag>>)]
    ELSE IF e.kind = "own"
    THEN [m EXCEPT ![name].cflags_node[field][comp].val = Append(@, flag)]
    ELSE [m EXCEPT ![e.obj].cflags_node[e.field][comp].val = Append(@, flag)]

\* add_global_cflags, add_public_cflags, add_private_cflags with one
\* compiler name and one flag
add_global_cflags(m, name, compiler, flag) == ExtendFlags(m, name, "global_flags", compiler, flag)
add_public_cflags(m, name, compiler, flag) == ExtendFlags(m, name, "public_flags", compiler, flag)
add_private_cflags(m, name, compiler, flag) == ExtendFlags(m, name, "private_flags", compiler, flag)

\* add_cflags(compiler, *cflags)
add_cflags(m, name, compiler, flag) == add_global_cflags(m, name, compiler, flag)

\* add_ldflags(linker, *ldflags)
add_ldflags(m, name, linker, flag) ==
    LET e == m[name].compiler_to_ldflags[linker] IN
    IF e.kind = "absent"
    THEN [m EXCEPT ![name].compiler_to_ldflags[linker] = OwnList(<<flag>>)]
    ELSE IF e.kind = "own"
    THEN [m EXCEPT ![name].compiler_to_ldflags[linker].val = Append(@, flag)]
    ELSE [m EXCEPT ![e.obj].compiler_to_ldflags[linker].val = Append(@, flag)]

\* add_private_includes, add_public_includes, add_global_includes with
\* one include
add_private_includes(m, name, inc) ==
    [m EXCEPT ![name].include_node.private_incs = Append(@, inc)]
add_public_includes(m, name, inc) ==
    [m EXCEPT ![name].include_node.public_incs = Append(@, inc)]
add_global_includes(m, name, inc) ==
    [m EXCEPT ![name].include_node.global_incs = Append(@, inc)]

\* add_includes(*incs)
add_includes(m, name, inc) == add_global_includes(m, name, inc)

\* add_library_paths(*libpaths)
add_library_paths(m, name, libpath) == [m EXCEPT ![name].libpaths = Append(@, libpath)]

\* add_libraries(*libs)
add_libraries(m, name, lib) == [m EXCEPT ![name].libraries = Append(@, lib)]

\* what the object named name holds: every dict with the contents of its
\* lists, the includes, the libraries and the library paths
FlagsOf(m, name, field) ==
    [k \in Compilers |->
        [present |-> HasKey(DictAt(m, name, field), k),
         flags |-> ListAt(m, DictAt(m, name, field)[k], k)]]

MetaValue(m, name) ==
    [global_flags |-> FlagsOf(m, name, "global_flags"),
     public_flags |-> FlagsOf(m, name, "public_flags"),
     private_flags |-> FlagsOf(m, name, "private_flags"),
     compiler_to_ldflags |-> FlagsOf(m, name, "compiler_to_ldflags"),
     include_node |-> m[name].include_node,
     libraries |-> m[name].libraries,
     libpaths |-> m[name].libpaths]

\* the BuildMeta objects the merges start from: an empty one and one with
\* a flag, a linker flag, an include, a library and a library path
BuildInputs ==
    {BuildMetaNew(<<>>, <<>>, <<>>, EmptyDict, EmptyDict),
     BuildMetaNew(<<"inc">>, <<"path">>, <<"m">>,
                  [EmptyDict EXCEPT !["gcc"] = OwnList(<<"-O1">>)],
                  [EmptyDict EXCEPT !["gcc"] = OwnList(<<"-s">>)])}

\* the compiler and the flag, include and library of the add_* calls
AddCompilers == {"gcc"}
NewFlag == "-g"

\* the number of add_* calls
MaxCalls == 3

\* ------------------------------------------------------------------------
\* The state machine
\* ------------------------------------------------------------------------

VARIABLES
    source,            \* the text handed to CppSourceIterator
    pc,                \* "new": not constructed; "ready": the iterator exists;
                       \* "failed": __init__ raised
    error,             \* the exception __init__ raised
    self,              \* the indices of the iterator (fixed by __init__)
    class_defs,        \* self._class_defs
    local_id_to_cdef,  \* self.local_id_to_cdef
    pos,               \* self.pos
    bracket_state,     \* self.bracket_state
    last,              \* the last discovery call: what was called and what
                       \* it returned or raised
    snap,              \* the tuple the caller holds from state(): its pos, the
                       \* contents of its dict now (counters) and when it was
                       \* taken (taken), and whether self.bracket_state is
                       \* that very dict (aliased)
    meta,              \* the BuildMeta objects a, b and r (objs), the merge that
                       \* made r (made), the number of add_* calls (calls) and
                       \* the last call (op)
    gen                \* the generator g = self.find_all_class_def() the caller
                       \* holds: none, created, suspended at the yield for the
                       \* keyword metas[at], or finished

vars == <<source, pc, error, self, class_defs, local_id_to_cdef, pos, bracket_state, last,
          snap, meta, gen>>

NoError == [exc |-> "None", char |-> "", at |-> NoMatch]

NoCall == [op |-> "none", args |-> <<>>, exc |-> "None", res |-> <<>>]

NoIterator == [source |-> "", tokens |-> <<>>, ignore_ranges |-> <<>>,
               ignore_starts |-> <<>>, identifier_metas |-> <<>>, identifiers |-> <<>>,
               identifier_metas_start_sorted |-> <<>>, identifier_starts |-> <<>>,
               bracket_pairs |-> <<>>, symbol_to_poses |-> [k \in AllSymbols |-> <<>>],
               namespace_ranges |-> <<>>]

NoSnapshot == [held |-> FALSE, pos |-> 0, counters |-> ZeroBrackets,
               taken |-> ZeroBrackets, aliased |-> FALSE]

\* self.bracket_state[k] = ... : an assignment into the dict self holds,
\* which the snapshot sees when it is the same dict
Mutated(s, counters) == IF s.aliased THEN [s EXCEPT !.counters = counters] ELSE s

\* the snapshot after a discovery pass: reset_bracket_count() at the top
\* of the loop body zeroes the dict self holds (when the loop ran), and
\* restore_state(state) at the end hands self the pass's own copy
AfterPass(s, iterated, restored) ==
    IF restored THEN [Mutated(s, IF iterated THEN ZeroBrackets ELSE s.counters)
                          EXCEPT !.aliased = FALSE]
    ELSE Mutated(s, IF iterated THEN ZeroBrackets ELSE s.counters)

\* BuildMeta(): no object of buildmeta.py is in use
NoBuildMeta == BuildMetaNew(<<>>, <<>>, <<>>, EmptyDict, EmptyDict)
NoMeta == [objs |-> [n \in MetaNames |-> NoBuildMeta], made |-> "none", calls |-> 0,
           op |-> <<"", "">>]

\* no generator of find_all_class_def is held
NoGenerator == [status |-> "none", at |-> 0]

InitIterator(sources) ==
    /\ source \in sources
    /\ gen = NoGenerator
    /\ snap = NoSnapshot
    /\ pc = "new"
    /\ error = NoError
    /\ self = NoIterator
    /\ class_defs = <<>>
    /\ local_id_to_cdef = <<>>
    /\ pos = 0
    /\ bracket_state = ZeroBrackets
    /\ last = NoCall

InitWith(sources) ==
    /\ InitIterator(sources)
    /\ meta = NoMeta

\* CppSourceIterator(source)
DoConstruct ==
    /\ pc = "new"
    /\ \E c \in {Construct(source)} :
       IF c.exc = "None"
       THEN /\ pc' = "ready"
            /\ error' = NoError
            /\ self' = c.it
            /\ class_defs' = c.class_defs
            /\ local_id_to_cdef' = c.local_id_to_cdef
            /\ pos' = c.cur.pos
            /\ bracket_state' = c.cur.bracket_state
       ELSE /\ pc' = "failed"
            /\ error' = [exc |-> c.exc, char |-> c.char, at |-> c.at]
            /\ UNCHANGED <<self, class_defs, local_id_to_cdef, pos, bracket_state>>
    /\ UNCHANGED <<gen, meta, source, last, snap>>

\* siter.move(p)
Move(p) ==
    /\ pc = "ready"
    /\ pos' = move(Cursor(pos, bracket_state), p).pos
    /\ UNCHANGED <<gen, meta, source, pc, error, self, class_defs, local_id_to_cdef, bracket_state, last,
                   snap>>

\* siter.inc_bracket()
IncBracket ==
    /\ pc = "ready"
    /\ pos < Len(source)
    /\ \E cur \in {inc_bracket(self, Cursor(pos, bracket_state))} :
       /\ \A k \in OpenBrackets : cur.bracket_state[k] \in -MaxCount..MaxCount
       /\ bracket_state' = cur.bracket_state
       /\ snap' = Mutated(snap, cur.bracket_state)
    /\ UNCHANGED <<gen, meta, source, pc, error, self, class_defs, local_id_to_cdef, pos, last>>

\* siter.reset_bracket_count()
ResetBracketCount ==
    /\ pc = "ready"
    /\ bracket_state' = reset_bracket_count(Cursor(pos, bracket_state)).bracket_state
    /\ snap' = Mutated(snap, ZeroBrackets)
    /\ UNCHANGED <<gen, meta, source, pc, error, self, class_defs, local_id_to_cdef, pos, last>>

\* what a discovery call leaves: the cursor and the record of the call
Called(op, args, r) ==
    /\ pos' = r.cur.pos
    /\ bracket_state' = r.cur.bracket_state
    /\ last' = [op |-> op, args |-> args, exc |-> r.exc, res |-> r.res]
    /\ UNCHANGED <<gen, meta, source, pc, error, self, class_defs, local_id_to_cdef>>

\* list(siter.find_all_class_def())
CallFindAllClassDef ==
    /\ pc = "ready"
    /\ Called("find_all_class_def", <<>>,
              find_all_class_def(self, Cursor(pos, bracket_state)))
    /\ snap' = AfterPass(snap, find_identifier_prefix(self, "class", TRUE)
                                   \o find_identifier_prefix(self, "struct", TRUE) # <<>>,
                         FALSE)

\* siter.get_namespace_ranges(siter._class_defs)
CallGetNamespaceRanges ==
    /\ pc = "ready"
    /\ Called("get_namespace_ranges", <<>>,
              get_namespace_ranges(self, class_defs, Cursor(pos, bracket_state)))
    /\ snap' = AfterPass(snap, find_identifier_prefix(self, "namespace", TRUE) # <<>>,
                         last'.exc = "None")

\* siter.find_function_prefix(prefix, find_after, full_match, decl_only)
CallFindFunctionPrefix(q) ==
    /\ pc = "ready"
    /\ Called("find_function_prefix", q,
              find_function_prefix(self, Cursor(pos, bracket_state), q[1], q[2], q[3], q[4]))
    /\ snap' = AfterPass(snap, find_identifier_prefix(self, q[1], q[3]) # <<>>,
                         last'.exc = "None")

\* siter.find_marked_identifier(mark)
CallFindMarkedIdentifier(mark) ==
    /\ pc = "ready"
    /\ Called("find_marked_identifier", <<mark>>,
              find_marked_identifier(self, Cursor(pos, bracket_state), mark))
    /\ snap' = AfterPass(snap, find_identifier_prefix(self, mark, TRUE) # <<>>,
                         last'.exc = "None")

\* _parse_sources_get_pybind on source_paths that begin with the source:
\* it builds an iterator of its own for every path, and the iterator of
\* the model is not touched.  What it returns depends on the sources
\* alone, so the call is made once, before any other call.
CallParse ==
    /\ pc = "ready"
    /\ last = NoCall
    /\ \E source_contents \in SourcePaths(source) :
       \E r \in {_parse_sources_get_pybind(source_contents, ExportKw, ExportInitKw,
                                            ExportInitSharedKw, ExportPropKw)} :
           last' = [op |-> "_parse_sources_get_pybind", args |-> <<source_contents>>,
                    exc |-> r.exc,
                    res |-> [classes |-> r.classes, outside_methods |-> r.outside_methods,
                             funcs |-> r.funcs]]
    /\ UNCHANGED <<gen, meta, source, pc, error, self, class_defs, local_id_to_cdef, pos,
                   bracket_state, snap>>

Discover ==
    \/ CallFindAllClassDef
    \/ CallGetNamespaceRanges
    \/ \E q \in FunctionQueries : CallFindFunctionPrefix(q)
    \/ \E mark \in Marks : CallFindMarkedIdentifier(mark)

\* the cursor and the passes on short sources
Next ==
    \/ DoConstruct
    \/ \E p \in 0..Len(source) : Move(p)
    \/ IncBracket
    \/ ResetBracketCount
    \/ Discover

Spec == InitWith(CursorSources) /\ [][Next]_vars

\* the passes and the binding generator on many sources
NextScan ==
    \/ DoConstruct
    \/ Discover
    \/ CallParse

SpecScan == InitWith(ScanSources) /\ [][NextScan]_vars

\* construction alone, on many sources
NextLex == DoConstruct

SpecLex == InitWith(LexSources) /\ [][NextLex]_vars

\* siter.next_bracket(bracket)
CallNextBracket(bracket) ==
    /\ pc = "ready"
    /\ \E r \in {next_bracket(self, Cursor(pos, bracket_state), bracket)} :
           Called("next_bracket", <<bracket>>, [exc |-> r.exc, cur |-> r.cur, res |-> r.ret])
    /\ UNCHANGED snap

\* siter.next_identifier()
CallNextIdentifier ==
    /\ pc = "ready"
    /\ \E r \in {next_identifier(self, Cursor(pos, bracket_state))} :
           Called("next_identifier", <<>>, [exc |-> "None", cur |-> r.cur, res |-> r.ret])
    /\ UNCHANGED snap

\* siter.skip_identifier()
CallSkipIdentifier ==
    /\ pc = "ready"
    /\ Called("skip_identifier", <<>>,
              [exc |-> "None", res |-> <<>>,
               cur |-> skip_identifier(self, Cursor(pos, bracket_state))])
    /\ UNCHANGED snap

\* siter.next_semicolon()
CallNextSemicolon ==
    /\ pc = "ready"
    /\ \E r \in {next_semicolon(self, Cursor(pos, bracket_state))} :
           Called("next_semicolon", <<>>, [exc |-> "None", cur |-> r.cur, res |-> r.ret])
    /\ UNCHANGED snap

\* siter.skip_string_comment(), called with the cursor at args[1]
CallSkipStringComment ==
    /\ pc = "ready"
    /\ Called("skip_string_comment", <<pos>>,
              [exc |-> "None", res |-> <<>>,
               cur |-> move(Cursor(pos, bracket_state), skip_string_comment(self, pos))])
    /\ UNCHANGED snap

\* s = siter.state()
TakeState ==
    /\ pc = "ready"
    /\ snap' = [held |-> TRUE,
                pos |-> state(Cursor(pos, bracket_state)).pos,
                counters |-> state(Cursor(pos, bracket_state)).bracket_state,
                taken |-> bracket_state,
                aliased |-> FALSE]
    /\ UNCHANGED <<gen, meta, source, pc, error, self, class_defs, local_id_to_cdef, pos, bracket_state,
                   last>>

\* siter.restore_state(s)
RestoreState ==
    /\ pc = "ready"
    /\ snap.held
    /\ pos' = restore_state(Cursor(pos, bracket_state), Cursor(snap.pos, snap.counters)).pos
    /\ bracket_state' =
           restore_state(Cursor(pos, bracket_state), Cursor(snap.pos, snap.counters)).bracket_state
    /\ snap' = [snap EXCEPT !.aliased = TRUE]
    /\ UNCHANGED <<gen, meta, source, pc, error, self, class_defs, local_id_to_cdef, last>>

\* the cursor and the next_* steps
NextStep ==
    \/ DoConstruct
    \/ \E p \in 0..Len(source) : Move(p)
    \/ IncBracket
    \/ ResetBracketCount
    \/ \E bracket \in OpenBrackets : CallNextBracket(bracket)
    \/ CallNextIdentifier
    \/ CallNextSemicolon
    \/ CallSkipStringComment
    \/ CallSkipIdentifier

SpecStep == InitWith(StepSources) /\ [][NextStep]_vars

\* the positions the cursor is moved to: the start and the brackets
SnapMoves(s) == {0} \cup {p \in 0..(Len(s) - 1) : Ch(s, p) \in OpenBrackets \cup CloseBrackets}

\* snapshots of the cursor among the cursor operations and the passes
NextSnap ==
    \/ DoConstruct
    \/ \E p \in SnapMoves(source) : Move(p)
    \/ IncBracket
    \/ ResetBracketCount
    \/ TakeState
    \/ RestoreState
    \/ \E bracket \in OpenBrackets : CallNextBracket(bracket)
    \/ CallNextIdentifier
    \/ CallNextSemicolon
    \/ CallSkipIdentifier
    \/ Discover

SpecSnap == InitWith(SnapSources) /\ [][NextSnap]_vars

\* g = siter.find_all_class_def(): the generator is made and none of its
\* code runs
StartFindAllClassDef ==
    /\ pc = "ready"
    /\ gen' = [status |-> "created", at |-> 0]
    /\ UNCHANGED <<meta, source, pc, error, self, class_defs, local_id_to_cdef, pos,
                   bracket_state, last, snap>>

\* next(g): the generator runs on the cursor as the caller left it, up to
\* its next yield, its end or an exception
NextClassDef ==
    /\ pc = "ready"
    /\ gen.status \in {"created", "suspended"}
    /\ \E metas \in {find_identifier_prefix(self, "class", TRUE)
                          \o find_identifier_prefix(self, "struct", TRUE)} :
       \E r \in {ClassDefNext(self, metas, gen.at + 1, Cursor(pos, bracket_state))} :
           /\ pos' = r.cur.pos
           /\ bracket_state' = r.cur.bracket_state
           /\ last' = [op |-> "next", args |-> <<>>, exc |-> r.exc, res |-> r.yields]
           /\ gen' = [status |-> IF r.exc = "None" THEN "suspended" ELSE "finished",
                      at |-> r.at]
           /\ snap' = AfterPass(snap, gen.at + 1 <= Len(metas), FALSE)
    /\ UNCHANGED <<meta, source, pc, error, self, class_defs, local_id_to_cdef>>

\* the generator of find_all_class_def consumed one yield at a time, with
\* the caller moving the cursor in between
NextGen ==
    \/ DoConstruct
    \/ \E p \in SnapMoves(source) : Move(p)
    \/ IncBracket
    \/ StartFindAllClassDef
    \/ NextClassDef

SpecGen == InitWith(GenSources) /\ [][NextGen]_vars

\* what a BuildMeta call leaves: the objects, and the record of the call
MetaCalled(objs, made, calls, name, op) ==
    /\ meta' = [objs |-> objs, made |-> made, calls |-> calls, op |-> <<name, op>>]
    /\ UNCHANGED <<gen, source, pc, error, self, class_defs, local_id_to_cdef, pos,
                   bracket_state, last, snap>>

\* the object named name exists and one more add_* call may be made on it
MayAdd(name) == meta.calls < MaxCalls /\ (name = "r" => meta.made # "none")

\* r = a + b
DoAdd ==
    /\ meta.made = "none"
    /\ MetaCalled([meta.objs EXCEPT !["r"] = __add__(meta.objs, "a", "b")],
                  "add", meta.calls, "r", "__add__")

\* r = a.inherit(b)
DoInherit ==
    /\ meta.made = "none"
    /\ MetaCalled([meta.objs EXCEPT !["r"] = inherit(meta.objs, "a", "b")],
                  "inherit", meta.calls, "r", "inherit")

\* name.add_cflags(compiler, NewFlag)
CallAddCflags(name, compiler) ==
    /\ MayAdd(name)
    /\ MetaCalled(add_cflags(meta.objs, name, compiler, NewFlag),
                  meta.made, meta.calls + 1, name, "add_cflags")

\* name.add_public_cflags(compiler, NewFlag)
CallAddPublicCflags(name, compiler) ==
    /\ MayAdd(name)
    /\ MetaCalled(add_public_cflags(meta.objs, name, compiler, NewFlag),
                  meta.made, meta.calls + 1, name, "add_public_cflags")

\* name.add_private_cflags(compiler, NewFlag)
CallAddPrivateCflags(name, compiler) ==
    /\ MayAdd(name)
    /\ MetaCalled(add_private_cflags(meta.objs, name, compiler, NewFlag),
                  meta.made, meta.calls + 1, name, "add_private_cflags")

\* name.add_ldflags(linker, NewFlag)
CallAddLdflags(name, linker) ==
    /\ MayAdd(name)
    /\ MetaCalled(add_ldflags(meta.objs, name, linker, NewFlag),
                  meta.made, meta.calls + 1, name, "add_ldflags")

\* name.add_includes(NewFlag)
CallAddIncludes(name) ==
    /\ MayAdd(name)
    /\ MetaCalled(add_includes(meta.objs, name, NewFlag),
                  meta.made, meta.calls + 1, name, "add_includes")

\* a += b
DoIAdd ==
    /\ MayAdd("a")
    /\ MetaCalled(__iadd__(meta.objs, "a", "b"), meta.made, meta.calls + 1, "a", "__iadd__")

\* name.add_private_includes(NewFlag)
CallAddPrivateIncludes(name) ==
    /\ MayAdd(name)
    /\ MetaCalled(add_private_includes(meta.objs, name, NewFlag),
                  meta.made, meta.calls + 1, name, "add_private_includes")

\* name.add_public_includes(NewFlag)
CallAddPublicIncludes(name) ==
    /\ MayAdd(name)
    /\ MetaCalled(add_public_includes(meta.objs, name, NewFlag),
                  meta.made, meta.calls + 1, name, "add_public_includes")

\* name.add_library_paths(NewFlag)
CallAddLibraryPaths(name) ==
    /\ MayAdd(name)
    /\ MetaCalled(add_library_paths(meta.objs, name, NewFlag),
                  meta.made, meta.calls + 1, name, "add_library_paths")

\* name.add_libraries(NewFlag)
CallAddLibraries(name) ==
    /\ MayAdd(name)
    /\ MetaCalled(add_libraries(meta.objs, name, NewFlag),
                  meta.made, meta.calls + 1, name, "add_libraries")

\* two BuildMeta objects, their merge, and add_* calls on the three
InitMeta ==
    /\ InitIterator({""})
    /\ \E x, y \in BuildInputs :
          meta = [objs |-> [n \in MetaNames |->
                               IF n = "a" THEN x ELSE IF n = "b" THEN y ELSE NoBuildMeta],
                  made |-> "none", calls |-> 0, op |-> <<"", "">>]

NextMeta ==
    \/ DoAdd
    \/ DoInherit
    \/ \E name \in MetaNames, compiler \in AddCompilers : CallAddCflags(name, compiler)
    \/ \E name \in MetaNames, compiler \in AddCompilers : CallAddPublicCflags(name, compiler)
    \/ \E name \in MetaNames, compiler \in AddCompilers : CallAddPrivateCflags(name, compiler)
    \/ \E name \in MetaNames, linker \in AddCompilers : CallAddLdflags(name, linker)
    \/ \E name \in MetaNames : CallAddIncludes(name)
    \/ \E name \in MetaNames : CallAddLibraries(name)
    \/ DoIAdd
    \/ \E name \in MetaNames : CallAddPrivateIncludes(name)
    \/ \E name \in MetaNames : CallAddPublicIncludes(name)
    \/ \E name \in MetaNames : CallAddLibraryPaths(name)

SpecMeta == InitMeta /\ [][NextMeta]_vars

\* ------------------------------------------------------------------------
\* Construction: the bracket scan
\* ------------------------------------------------------------------------

\* the positions of s that lie in no comment and in no literal of toks
CodePositions(s, toks) ==
    {p \in 0..Len(s) - 1 :
        \A i \in 1..Len(toks) :
            toks[i].kind = "Identifier" \/ p < toks[i].start \/ p >= toks[i].end}

\* how many positions of code before p hold the character c
CountBefore(s, code, c, p) == Cardinality({q \in code : q < p /\ Ch(s, q) = c})

\* the closing brackets of code that as many closing as opening brackets
\* of their kind precede: the least of them is the first closing bracket
\* met with no unmatched opening bracket of its kind
ClosersWithoutOpen(s, code) ==
    {p \in code : /\ Ch(s, p) \in CloseBrackets
                  /\ CountBefore(s, code, end_brackets(Ch(s, p)), p)
                         <= CountBefore(s, code, Ch(s, p), p)}

Least(S) == CHOOSE x \in S : \A y \in S : x <= y

\* C1: once the constructor has run on a source that holds, outside
\* comments and literals, a closing bracket with no unmatched opening
\* bracket of its kind before it, construction has failed with the
\* unbalanced-bracket error (ValueError) naming the first such character
\* and its position, and no iterator, class list or id map exists.
UnmatchedCloserFails ==
    \A code \in {CodePositions(source, cpp_simple_tokenize(source))} :
    \A bad \in {ClosersWithoutOpen(source, code)} :
        (pc # "new" /\ bad # {}) =>
            /\ pc = "failed"
            /\ error = [exc |-> "ValueError", char |-> Ch(source, Least(bad)),
                        at |-> Least(bad)]
            /\ self = NoIterator
            /\ class_defs = <<>>
            /\ local_id_to_cdef = <<>>

\* C1 witness: construction failed on a closing bracket that follows a
\* matched pair of its kind and a bracket hidden in a comment or literal
UnmatchedCloserSeen ==
    /\ pc = "failed"
    /\ error.exc = "ValueError"
    /\ \E code \in {CodePositions(source, cpp_simple_tokenize(source))} :
        /\ CountBefore(source, code, end_brackets(error.char), error.at) > 0
        /\ \E q \in (0..error.at) \ code : Ch(source, q) \in OpenBrackets \cup CloseBrackets

\* the kinds of bracket left open at the end of the source
OpenAtEnd(s, code) ==
    {k \in OpenBrackets :
        \E c \in CloseBrackets :
            /\ end_brackets(c) = k
            /\ CountBefore(s, code, k, Len(s)) > CountBefore(s, code, c, Len(s))}

\* C2: once the constructor has run on a source whose scan reaches the end
\* with an opening bracket still unmatched, construction has failed with
\* the error kind of the unmatched closing bracket (ValueError), and no
\* iterator exists.
UnclosedOpenFailsAlike ==
    \A code \in {CodePositions(source, cpp_simple_tokenize(source))} :
        (/\ pc # "new"
         /\ ClosersWithoutOpen(source, code) = {}
         /\ OpenAtEnd(source, code) # {}) =>
            /\ pc = "failed"
            /\ error.exc = "ValueError"
            /\ self = NoIterator

\* the brackets of code from p on close the stack of open brackets, each
\* closing bracket the innermost open one, and leave none open
RECURSIVE NestedFrom(_, _, _, _)
NestedFrom(s, code, p, stack) ==
    IF p >= Len(s) THEN stack = <<>>
    ELSE IF p \notin code THEN NestedFrom(s, code, p + 1, stack)
    ELSE IF Ch(s, p) \in OpenBrackets
    THEN NestedFrom(s, code, p + 1, Append(stack, Ch(s, p)))
    ELSE IF Ch(s, p) \in CloseBrackets
    THEN /\ stack # <<>>
         /\ Last(stack) = end_brackets(Ch(s, p))
         /\ NestedFrom(s, code, p + 1, SubSeq(stack, 1, Len(stack) - 1))
    ELSE NestedFrom(s, code, p + 1, stack)

WellNested(s, code) == NestedFrom(s, code, 0, <<>>)

\* the nesting depth at q counted from the opening bracket at o: brackets
\* of code opened minus brackets of code closed in o..q
DepthFrom(s, code, o, q) ==
    Cardinality({r \in code : o <= r /\ r <= q /\ Ch(s, r) \in OpenBrackets})
        - Cardinality({r \in code : o <= r /\ r <= q /\ Ch(s, r) \in CloseBrackets})

\* the first position after o at which that depth is back to zero
DepthClose(s, code, o) ==
    Least({q \in code : q > o /\ DepthFrom(s, code, o, q) = 0})

\* C3: once the constructor has run on a properly nested source, the
\* iterator exists, and every opening bracket outside comments and
\* literals has exactly one entry in the pair table, whose close is the
\* position a depth count from that bracket gives.
BalancedRoundTrip ==
    \A code \in {CodePositions(source, cpp_simple_tokenize(source))} :
        (pc # "new" /\ WellNested(source, code)) =>
            /\ pc = "ready"
            /\ \A o \in code :
                Ch(source, o) \in OpenBrackets =>
                    /\ Cardinality({i \in 1..Len(self.bracket_pairs) :
                                        self.bracket_pairs[i][2] = o}) = 1
                    /\ BracketPairAt(self, o)[3] = DepthClose(source, code, o)

\* the part of C3 that the scan alone decides: the pair table of a
\* properly nested source on which construction succeeded
BalancedPairsMatch ==
    \A code \in {CodePositions(source, self.tokens)} :
        (pc = "ready" /\ WellNested(source, code)) =>
            \A o \in code :
                Ch(source, o) \in OpenBrackets =>
                    /\ Cardinality({i \in 1..Len(self.bracket_pairs) :
                                        self.bracket_pairs[i][2] = o}) = 1
                    /\ BracketPairAt(self, o)[3] = DepthClose(source, code, o)

\* ------------------------------------------------------------------------
\* The discovery passes and the cursor
\* ------------------------------------------------------------------------

\* the cursor at the start of the source with its counters at zero
StartCursor == Cursor(0, ZeroBrackets)

\* C4: whatever the cursor and the counters were when a discovery method
\* was called, and whatever ran before it, what it returned is what the
\* same method returns for the same arguments with the cursor at the
\* start and the counters at zero: two calls with the same arguments on
\* the same iterator give the same result list.
RepeatableDiscovery ==
    /\ last.op = "find_all_class_def" =>
           \A r \in {find_all_class_def(self, StartCursor)} :
               last.exc = r.exc /\ last.res = r.res
    /\ last.op = "get_namespace_ranges" =>
           \A r \in {get_namespace_ranges(self, class_defs, StartCursor)} :
               last.exc = r.exc /\ last.res = r.res
    /\ last.op = "find_function_prefix" =>
           \A r \in {find_function_prefix(self, StartCursor, last.args[1], last.args[2],
                                          last.args[3], last.args[4])} :
               last.exc = r.exc /\ last.res = r.res
    /\ last.op = "find_marked_identifier" =>
           \A r \in {find_marked_identifier(self, StartCursor, last.args[1])} :
               last.exc = r.exc /\ last.res = r.res

\* C4 witness: a pass that found something, called with the cursor inside
\* the source and a counter off zero (the passes that restore the cursor
\* leave it as they found it)
DiscoveryAwayFromStart ==
    /\ last.op \in {"find_function_prefix", "find_marked_identifier"}
    /\ last.res # <<>>
    /\ pos > 0
    /\ bracket_state # ZeroBrackets

\* a step that leaves the cursor where it was
CursorKept == pos' = pos /\ bracket_state' = bracket_state

\* C5: a discovery call leaves the cursor position and the three bracket
\* counters as they were before the call.
DiscoveryKeepsCursor ==
    [][/\ (last'.op = "find_all_class_def" /\ CallFindAllClassDef) => CursorKept
       /\ (last'.op = "get_namespace_ranges" /\ CallGetNamespaceRanges) => CursorKept
       /\ (/\ last'.op = "find_function_prefix"
           /\ \E q \in FunctionQueries : CallFindFunctionPrefix(q)) => CursorKept
       /\ (/\ last'.op = "find_marked_identifier"
           /\ \E mark \in Marks : CallFindMarkedIdentifier(mark)) => CursorKept]_vars

\* ------------------------------------------------------------------------
\* Class discovery and qualified ids
\* ------------------------------------------------------------------------

ForwardDeclSource == "class Bar; class Bar { };"

\* the positions of code at or after p that hold the character c
CodeFrom(s, code, c, p) == {q \in code : q >= p /\ Ch(s, q) = c}

\* a class or struct keyword (its meta is m) after which a ';' comes
\* before the next '{'
IsForwardDecl(s, code, m) ==
    /\ m.name \in {"class", "struct"}
    /\ CodeFrom(s, code, "{", m.end) # {}
    /\ \E q \in CodeFrom(s, code, ";", m.end) : q < Least(CodeFrom(s, code, "{", m.end))

\* C6: on a constructed iterator no ClassDef belongs to a class or struct
\* keyword that a ';' follows before the next '{'; and the source
\* `class Bar; class Bar { };` has exactly one ClassDef, named Bar, whose
\* body is the later brace pair (21, 23).
ForwardDeclSkipped ==
    pc = "ready" =>
        /\ \A code \in {CodePositions(source, self.tokens)} :
           \A k \in 1..Len(self.identifier_metas) :
               IsForwardDecl(source, code, self.identifier_metas[k]) =>
                   \A i \in 1..Len(class_defs) :
                       class_defs[i].keyword_pos # self.identifier_metas[k].start
        /\ source = ForwardDeclSource =>
               /\ Len(class_defs) = 1
               /\ class_defs[1].name = "Bar"
               /\ class_defs[1].keyword_pos = 11
               /\ <<class_defs[1].body_start, class_defs[1].body_end>> = <<21, 23>>

\* C6 witness: the iterator of the forward-declaration source, with its
\* one ClassDef
ForwardDeclSeen ==
    /\ pc = "ready"
    /\ source = ForwardDeclSource
    /\ \E k \in 1..Len(self.identifier_metas) :
           IsForwardDecl(source, CodePositions(source, self.tokens), self.identifier_metas[k])
    /\ Len(class_defs) = 1

NestedScopeSource == "class Outer { namespace inner { class Inner { }; } };"

\* the names of the ranges of nr whose indices are in K, by ascending
\* start: of ranges that contain a common point, the outermost first
RECURSIVE NamesOutermostFirst(_, _)
NamesOutermostFirst(nr, K) ==
    IF K = {} THEN <<>>
    ELSE LET k == CHOOSE k \in K : \A j \in K : nr[k][2] < nr[j][2] \/ (nr[k][2] = nr[j][2] /\ k <= j)
         IN  <<nr[k][1]>> \o NamesOutermostFirst(nr, K \ {k})

\* the ranges of nr that strictly contain the body of cdef
StrictlyContaining(nr, cdef) ==
    {k \in 1..Len(nr) : nr[k][2] < cdef.body_start /\ cdef.body_end < nr[k][3]}

\* C7: on a constructed iterator the local_id of every ClassDef is the
\* "::"-join of the names of all namespace and class ranges that strictly
\* contain its body, outermost first, then its own name; Inner of
\* `class Outer { namespace inner { class Inner { }; } };` has the id
\* Outer::inner::Inner.
LocalIdIsContainment ==
    pc = "ready" =>
        /\ \A i \in 1..Len(class_defs) :
               class_defs[i].local_id =
                   Join("::", Append(NamesOutermostFirst(self.namespace_ranges,
                                         StrictlyContaining(self.namespace_ranges,
                                                            class_defs[i])),
                                     class_defs[i].name))
        /\ source = NestedScopeSource =>
               /\ \E i \in 1..Len(class_defs) : class_defs[i].name = "Inner"
               /\ \A i \in 1..Len(class_defs) :
                      class_defs[i].name = "Inner" =>
                          class_defs[i].local_id = "Outer::inner::Inner"

\* C7 witness: a ClassDef inside a namespace inside a class, the class
\* range found after the namespace range
NestedScopeSeen ==
    /\ pc = "ready"
    /\ source = NestedScopeSource
    /\ \E i \in 1..Len(class_defs) :
           Cardinality(StrictlyContaining(self.namespace_ranges, class_defs[i])) = 2

\* ------------------------------------------------------------------------
\* Marked functions and the binding generator
\* ------------------------------------------------------------------------

ExportSource == "class Foo { public: I Foo(int); int M add(int); };"

\* the qualified id of the FunctionDef f without its last component
ParentOf(f) ==
    IF Len(f.local_id) > Len(f.name)
    THEN Slice(f.local_id, 0, Len(f.local_id) - Len(f.name) - 2)
    ELSE ""

\* the parent of f's id is the local id of a known ClassDef
IsMethod(f) == ParentOf(f) \in DOMAIN local_id_to_cdef

\* the key of the class entry of that ClassDef
ClassKeyOf(f) == ClsLocalId(class_defs[local_id_to_cdef[ParentOf(f)]])

\* _parse_sources_get_pybind has returned from source_paths that hold the
\* source alone
ParsedAlone ==
    /\ pc = "ready"
    /\ last.op = "_parse_sources_get_pybind"
    /\ last.args = <<(<<source>>)>>
    /\ last.exc = "None"

\* C8: when _parse_sources_get_pybind has classified the marked functions
\* of a source, the free functions are, in order, the marked functions
\* whose parent id is the local id of no known ClassDef, and the methods
\* of each class entry are, in order, those whose parent id is the local
\* id of that class; for `class Foo { public: Foo(int); int add(int); };`
\* with the constructor and add marked there is one ClassDef, Foo, and one
\* class entry, Foo, with inits ["Foo::Foo"] and methods ["Foo::add"], and
\* no free function.
MethodsByParent ==
    ParsedAlone =>
        LET funcs == last.res.funcs
            classes == last.res.classes
            free == SelectSeq(funcs, LAMBDA f : ~IsMethod(f))
            MethodsOf(key) == SelectSeq(funcs, LAMBDA f : IsMethod(f) /\ ClassKeyOf(f) = key)
        IN  /\ last.res.outside_methods =
                   [i \in 1..Len(free) |-> <<free[i].local_id, free[i].is_template>>]
            /\ \A i \in 1..Len(funcs) :
                   IsMethod(funcs[i]) =>
                       \E c \in 1..Len(classes) : classes[c].key = ClassKeyOf(funcs[i])
            /\ \A c \in 1..Len(classes) :
                   classes[c].methods =
                       [i \in 1..Len(MethodsOf(classes[c].key)) |->
                            classes[c].key \o "::" \o MethodsOf(classes[c].key)[i].name]
            /\ source = ExportSource =>
                   /\ Len(class_defs) = 1
                   /\ class_defs[1].local_id = "Foo"
                   /\ classes = <<[key |-> "Foo", inits |-> <<"Foo::Foo">>,
                                   methods |-> <<"Foo::add">>, public_props |-> <<>>,
                                   is_template |-> FALSE, is_shared |-> FALSE]>>
                   /\ last.res.outside_methods = <<>>

\* C8 witness: the classification of the export source
ExportSourceParsed ==
    /\ ParsedAlone
    /\ source = ExportSource
    /\ \E i \in 1..Len(last.res.funcs) : IsMethod(last.res.funcs[i])

TemplateSource == "template <class T> T MARK_add(T a, T b) { return a + b; }"

\* C9: on `template <class T> T MARK_add(T a, T b) { return a + b; }`
\* find_function_prefix with the prefix MARK_ returns one FunctionDef,
\* with is_template true and the local id add.
TemplateFunctionFound ==
    (/\ pc = "ready"
     /\ source = TemplateSource
     /\ last.op = "find_function_prefix"
     /\ last.args[1] = "MARK_") =>
        /\ last.exc = "None"
        /\ Len(last.res) = 1
        /\ last.res[1].is_template
        /\ last.res[1].local_id = "add"
\* ------------------------------------------------------------------------
\* Raw string literals
\* ------------------------------------------------------------------------

RawPrefixes == {"", "u8", "u", "U", "L"}

\* an optional encoding prefix and R" start at i; the prefix found
RawOpeners(s, i) ==
    {pre \in RawPrefixes : /\ i + Len(pre) + 2 <= Len(s)
                           /\ Slice(s, i, i + Len(pre) + 2) = pre \o "R\""}

\* the text of s from i up to e is prefix R"delim( body )delim" with e the
\* end of the first )delim" after the opening parenthesis
IsRawLiteral(s, i, e) ==
    \E pre \in RawOpeners(s, i) : \E d \in 0..(e - i) :
        \A r \in {i + Len(pre)} : \A open \in {i + Len(pre) + 2 + d} :
            /\ e <= Len(s)
            /\ open + 1 <= e - (d + 2)
            /\ \A k \in (r + 2)..(open - 1) : Ch(s, k) \notin NotDelim
            /\ Ch(s, open) = "("
            /\ \A close \in {")" \o Slice(s, r + 2, open) \o "\""} :
                   /\ Slice(s, e - (d + 2), e) = close
                   /\ \A c \in (open + 1)..(e - (d + 3)) : Slice(s, c, c + d + 2) # close

\* the tokenizer's search arrives at i: no earlier token runs over it
ScanReaches(toks, i) ==
    ~ \E k \in 1..Len(toks) : toks[k].start < i /\ i < toks[k].end

\* C10: a raw string literal R"delim(...)delim", with or without an
\* encoding prefix, that the scan arrives at is one String token from its
\* start through the first )delim"; no other token starts inside it, and
\* the iterator built from the source has no bracket pair and no symbol
\* position inside it.
RawStringIsOneToken ==
    \A toks \in {cpp_simple_tokenize(source)} :
    \A i \in {p \in 0..(Len(source) - 1) : RawOpeners(source, p) # {}} :
    \A e \in 1..Len(source) :
        (IsRawLiteral(source, i, e) /\ ScanReaches(toks, i)) =>
            /\ \E k \in 1..Len(toks) : toks[k] = Token("String", i, e, Slice(source, i, e))
            /\ \A k \in 1..Len(toks) :
                   toks[k].start \in i..(e - 1) => toks[k].kind = "String" /\ toks[k].start = i
            /\ pc = "ready" =>
                   /\ self.tokens = toks
                   /\ \A k \in 1..Len(self.bracket_pairs) :
                          /\ self.bracket_pairs[k][2] \notin i..(e - 1)
                          /\ self.bracket_pairs[k][3] \notin i..(e - 1)
                   /\ \A sym \in AllSymbols : \A k \in 1..Len(self.symbol_to_poses[sym]) :
                          self.symbol_to_poses[sym][k] \notin i..(e - 1)

\* C10 witness: an iterator built from a source with a raw literal whose
\* body holds a quote and a closing parenthesis
RawStringWithQuoteSeen ==
    /\ pc = "ready"
    /\ \E i \in 0..(Len(source) - 1) : \E e \in 1..Len(source) :
           /\ IsRawLiteral(source, i, e)
           /\ ScanReaches(self.tokens, i)
           /\ Cardinality({p \in i..(e - 1) : Ch(source, p) = "\""}) >= 3
           /\ Cardinality({p \in i..(e - 1) : Ch(source, p) = ")"}) >= 2
\* ------------------------------------------------------------------------
\* Ignored ranges: comments and literals
\* ------------------------------------------------------------------------

IgnoredKinds == {"Comment", "String"}

\* the text w stands in s at p
OccursAt(s, p, w) == p + Len(w) <= Len(s) /\ Slice(s, p, p + Len(w)) = w

\* p lies in a comment or literal token
InsideIgnored(toks, p) ==
    \E k \in 1..Len(toks) :
        toks[k].kind \in IgnoredKinds /\ toks[k].start <= p /\ p < toks[k].end

\* every occurrence of w in s starts in a comment or literal
OnlyInsideIgnored(s, toks, w) ==
    \A p \in 0..(Len(s) - 1) : OccursAt(s, p, w) => InsideIgnored(toks, p)

KeywordInCommentSource == "/* class A { }; */ struct B { }; // namespace n { M f(); P x; }"

\* C11: token starts are strictly increasing and no identifier token
\* overlaps a comment or literal token; on a constructed iterator no
\* ClassDef has its keyword in a comment or literal, no FunctionDef has its
\* identifier there, and a namespace keyword or marker that occurs only in
\* comments and literals produces no namespace range, FunctionDef or
\* marked-identifier entry.
KeywordsInIgnoredUnseen ==
    \A toks \in {cpp_simple_tokenize(source)} :
        /\ \A k \in 1..(Len(toks) - 1) : toks[k].start < toks[k + 1].start
        /\ \A j \in 1..Len(toks) : \A k \in 1..Len(toks) :
               (toks[j].kind = "Identifier" /\ toks[k].kind \in IgnoredKinds) =>
                   toks[j].end <= toks[k].start \/ toks[k].end <= toks[j].start
        /\ pc = "ready" =>
               /\ \A i \in 1..Len(class_defs) :
                      ~ InsideIgnored(toks, class_defs[i].keyword_pos)
               /\ OnlyInsideIgnored(source, toks, "namespace") =>
                      Len(self.namespace_ranges) = Len(class_defs)
               /\ (last.op = "find_all_class_def" /\ last.exc = "None") =>
                      \A i \in 1..Len(last.res) :
                          ~ InsideIgnored(toks, last.res[i].keyword_pos)
               /\ (/\ last.op = "get_namespace_ranges"
                   /\ OnlyInsideIgnored(source, toks, "namespace")) =>
                      Len(last.res) = Len(class_defs)
               /\ last.op = "find_function_prefix" =>
                      /\ \A i \in 1..Len(last.res) :
                             ~ InsideIgnored(toks, last.res[i].identifier_pos)
                      /\ OnlyInsideIgnored(source, toks, last.args[1]) => last.res = <<>>
               /\ (/\ last.op = "find_marked_identifier"
                   /\ OnlyInsideIgnored(source, toks, last.args[1])) =>
                      last.res = <<>>

\* C11 witness: function discovery on the source whose marker, class and
\* namespace keywords stand in comments, with the struct outside found
KeywordInCommentSeen ==
    /\ pc = "ready"
    /\ source = KeywordInCommentSource
    /\ InsideIgnored(self.tokens, 3)
    /\ OnlyInsideIgnored(source, self.tokens, "M")
    /\ Len(class_defs) = 1
    /\ last.op = "find_function_prefix"
    /\ last.args[1] = "M"
\* the first position at or after p where w stands in s (Len(s) if none)
RECURSIVE FirstAt(_, _, _)
FirstAt(s, p, w) ==
    IF p >= Len(s) THEN Len(s)
    ELSE IF OccursAt(s, p, w) THEN p
    ELSE FirstAt(s, p + 1, w)

\* a token of this kind from a up to b
HasToken(s, toks, kind, a, b) ==
    \E k \in 1..Len(toks) : toks[k] = Token(kind, a, b, Slice(s, a, b))

\* a plain string literal can start at the quote at p: the next quote
\* comes before any backslash or line end
PlainStringAt(s, p) ==
    /\ OccursAt(s, p, "\"")
    /\ FirstAt(s, p + 1, "\"") < Len(s)
    /\ \A q \in (p + 1)..(FirstAt(s, p + 1, "\"") - 1) : Ch(s, q) \notin {"\\", "\n", "\r"}

\* C12: recognition is leftmost-first.  Wherever the scan arrives at //,
\* one Comment token runs to the end of the line; at a /* that a */
\* follows, one Comment token runs through the first */; at a quote that
\* opens a plain string literal, one String token runs through the next
\* quote; and no token starts inside a comment or literal token, so an
\* opener inside another token opens nothing and the text after a line
\* comment's line end is tokenized on its own.
LeftmostFirst ==
    \A toks \in {cpp_simple_tokenize(source)} :
        /\ \A p \in 0..(Len(source) - 1) : ScanReaches(toks, p) =>
               /\ OccursAt(source, p, "//") =>
                      HasToken(source, toks, "Comment", p, FirstAt(source, p, "\n"))
               /\ (/\ OccursAt(source, p, "/*")
                   /\ FirstAt(source, p + 2, "*/") < Len(source)) =>
                      HasToken(source, toks, "Comment", p, FirstAt(source, p + 2, "*/") + 2)
               /\ PlainStringAt(source, p) =>
                      HasToken(source, toks, "String", p, FirstAt(source, p + 1, "\"") + 1)
        /\ \A j \in 1..Len(toks) : \A k \in 1..Len(toks) :
               toks[k].kind \in IgnoredKinds =>
                   ~ (toks[k].start < toks[j].start /\ toks[j].start < toks[k].end)
        /\ pc = "ready" => self.tokens = toks

\* C12 witness: a line comment that holds /* and a quote, with an
\* identifier on the next line
LineCommentHoldsOpener ==
    /\ pc = "ready"
    /\ \E k \in 1..(Len(self.tokens) - 1) :
           /\ self.tokens[k].kind = "Comment"
           /\ OccursAt(source, self.tokens[k].start, "//")
           /\ \E q \in (self.tokens[k].start + 2)..(self.tokens[k].end - 1) :
                  OccursAt(source, q, "/*") \/ OccursAt(source, q, "\"")
           /\ self.tokens[k + 1].kind = "Identifier"
           /\ Ch(source, self.tokens[k].end) = "\n"
\* ------------------------------------------------------------------------
\* The next_* steps
\* ------------------------------------------------------------------------

\* where reading starts for a cursor at p: the end of the comment or
\* literal p lies strictly inside, else p
ReadStart(toks, p) ==
    IF \E k \in 1..Len(toks) :
           toks[k].kind \in IgnoredKinds /\ toks[k].start < p /\ p < toks[k].end
    THEN toks[CHOOSE k \in 1..Len(toks) :
              toks[k].kind \in IgnoredKinds /\ toks[k].start < p /\ p < toks[k].end].end
    ELSE p

\* the first position at or after p that holds no whitespace (Len(s) if
\* none)
PastWhitespace(s, p) ==
    Least({q \in p..Len(s) : q = Len(s) \/ Ch(s, q) \notin skip_chars})

RoundCurlySource == "f( \"a)\" ) { }"

\* a next_bracket call for this bracket is taken
NextBracketStep(bracket) ==
    /\ last'.op = "next_bracket"
    /\ last'.args = <<bracket>>
    /\ CallNextBracket(bracket)

\* C13: when the first character that is no whitespace, read from the
\* cursor, is the requested opening bracket, next_bracket returns that
\* position with the position a depth count gives for its partner, and
\* leaves the cursor one past the partner; on `f( "a)" ) { }` next_round
\* from the identifier's end returns (1, 8) and next_curly from there
\* returns (10, 12).
NextBracketConsumes ==
    [][\A bracket \in OpenBrackets : NextBracketStep(bracket) =>
          /\ \A q \in {PastWhitespace(source, ReadStart(self.tokens, pos))} :
             \A code \in {CodePositions(source, self.tokens)} :
                 (/\ q < Len(source)
                  /\ Ch(source, q) = bracket
                  /\ WellNested(source, code)) =>
                     /\ last'.exc = "None"
                     /\ last'.res = <<q, DepthClose(source, code, q)>>
                     /\ pos' = DepthClose(source, code, q) + 1
                     /\ bracket_state' = bracket_state
          /\ (source = RoundCurlySource /\ pos = 1 /\ bracket = "(") =>
                 last'.res = <<1, 8>> /\ pos' = 9
          /\ (source = RoundCurlySource /\ pos = 9 /\ bracket = "{") =>
                 last'.res = <<10, 12>> /\ pos' = 13]_vars

\* C13 witness: next_curly has returned the body pair of
\* `f( "a)" ) { }` after next_round consumed the parameter list
RoundThenCurlySeen ==
    /\ pc = "ready"
    /\ source = RoundCurlySource
    /\ last.op = "next_bracket"
    /\ last.args = <<"{">>
    /\ last.res = <<10, 12>>
    /\ pos = 13
\* p is whitespace or lies in a comment
Skippable(s, toks, p) ==
    \/ Ch(s, p) \in skip_chars
    \/ \E k \in 1..Len(toks) :
           toks[k].kind = "Comment" /\ toks[k].start <= p /\ p < toks[k].end

\* the first position at or after p that is neither whitespace nor in a
\* comment (Len(s) if none)
PastSkippable(s, toks, p) ==
    Least({q \in p..Len(s) : q = Len(s) \/ ~ Skippable(s, toks, q)})

\* C14: when only whitespace and comments lie between the cursor and an
\* identifier, the requested bracket or a ';', next_identifier,
\* next_bracket and next_semicolon return that target, not none.
NextSkipsComments ==
    [][\A q \in {PastSkippable(source, self.tokens, pos)} :
       \A code \in {CodePositions(source, self.tokens)} :
          /\ \A bracket \in OpenBrackets :
                 (/\ NextBracketStep(bracket)
                  /\ q \in code
                  /\ Ch(source, q) = bracket
                  /\ WellNested(source, code)) =>
                     last'.res = <<q, DepthClose(source, code, q)>>
          /\ (/\ last'.op = "next_identifier"
              /\ CallNextIdentifier
              /\ \E k \in 1..Len(self.tokens) :
                     self.tokens[k].kind = "Identifier" /\ self.tokens[k].start = q) =>
                 last'.res.start = q
          /\ (/\ last'.op = "next_semicolon"
              /\ CallNextSemicolon
              /\ q \in code
              /\ Ch(source, q) = ";") =>
                 last'.res = q]_vars
\* the step from pos to pos' passed nothing but whitespace and the
\* comment or literal the cursor started strictly inside
OnlyWhitespacePassed ==
    /\ pos' >= pos
    /\ \A q \in pos..(pos' - 1) :
           q < ReadStart(self.tokens, pos) \/ Ch(source, q) \in skip_chars

\* C15: a next_identifier, next_bracket or next_semicolon call that
\* returns none has moved the cursor over nothing but whitespace and the
\* ignored range it started inside; no next_* call changes the bracket
\* counters; and next_semicolon, when it finds a ';', returns its position
\* and leaves the cursor on it, so that the same call again returns the
\* same position.
NoneKeepsPlace ==
    [][/\ \A bracket \in OpenBrackets : NextBracketStep(bracket) =>
              /\ bracket_state' = bracket_state
              /\ last'.exc = "None"
              /\ last'.res = NonePair => OnlyWhitespacePassed
       /\ (last'.op = "next_identifier" /\ CallNextIdentifier) =>
              /\ bracket_state' = bracket_state
              /\ last'.res = NoneMeta => OnlyWhitespacePassed
       /\ (last'.op = "next_semicolon" /\ CallNextSemicolon) =>
              /\ bracket_state' = bracket_state
              /\ last'.res = NoMatch => OnlyWhitespacePassed
              /\ last'.res # NoMatch =>
                     /\ Ch(source, last'.res) = ";"
                     /\ pos' = last'.res
                     /\ \A again \in {next_semicolon(self, Cursor(pos', bracket_state'))} :
                            again.ret = last'.res /\ again.cur.pos = pos']_vars

\* C15 witness: next_semicolon has returned none with the cursor stopped
\* on a character after whitespace, the bracket counters not all zero
NoneAfterWhitespaceSeen ==
    /\ pc = "ready"
    /\ last.op = "next_semicolon"
    /\ last.res = NoMatch
    /\ 0 < pos /\ pos < Len(source)
    /\ Ch(source, pos - 1) \in skip_chars
    /\ Ch(source, pos) \notin skip_chars
    /\ bracket_state # ZeroBrackets
\* ------------------------------------------------------------------------
\* Snapshots of the cursor
\* ------------------------------------------------------------------------

\* C16: restore_state(s) sets the position and the three bracket counters
\* to the values they had when s = state() was taken, whatever cursor
\* operations, next_* steps, discovery passes and earlier restore_state(s)
\* calls ran in between.
RestoreGivesSnapshot ==
    [][(last'.op = last.op /\ RestoreState) =>
          (pos' = snap.pos /\ bracket_state' = snap.taken)]_vars

\* ---- Fatal and silent failures ----

\* C17: once the constructor has run on a source whose brackets outside
\* comments and literals are properly nested, the iterator exists, and no
\* discovery call on it has raised: a class keyword without a name, a
\* missing body or a disqualifying token only leaves the occurrence out.
OnlyUnbalancedIsFatal ==
    \A code \in {CodePositions(source, cpp_simple_tokenize(source))} :
        (pc # "new" /\ WellNested(source, code)) =>
            /\ pc = "ready"
            /\ error.exc = "None"
            /\ last.op \in {"find_all_class_def", "find_function_prefix",
                            "find_marked_identifier"} => last.exc = "None"

\* ---- Function signatures: body or declaration ----

\* the FunctionDefs a find_function_prefix call has just returned
FoundFunctions ==
    IF last.op = "find_function_prefix" /\ last.exc = "None" THEN last.res ELSE <<>>

\* the first position at or after the end of the parameter list of d that
\* holds no whitespace
AfterParams(d) == PastWhitespace(source, d.param_end + 1)

\* d has no body: both body positions are -1
DeclOnly(d) == d.body_start = -1 /\ d.body_end = -1

\* d has a body: the '{' that follows its parameter list, with the '}'
\* paired with it
HasBody(d) ==
    /\ d.body_start = AfterParams(d)
    /\ d.body_start < Len(source)
    /\ Ch(source, d.body_start) = "{"
    /\ d.body_end > d.body_start
    /\ Ch(source, d.body_end) = "}"
    /\ BracketPairAt(self, d.body_start)[3] = d.body_end

\* the parameter list of d: the '(' that follows its identifier, with the
\* ')' paired with it
HasParams(d) ==
    /\ HasIdentifierAt(self, d.identifier_pos)
    /\ d.param_start = PastWhitespace(source, IdentifierAt(self, d.identifier_pos).end)
    /\ Ch(source, d.param_start) = "("
    /\ BracketPairAt(self, d.param_start)[3] = d.param_end

\* C18: every FunctionDef find_function_prefix returns has a parameter
\* list after its identifier and then either a body, a matched '{' '}'
\* pair after the parameter list, or no body at all (both positions -1);
\* it has no body only when decl_only was asked for and a ';' follows the
\* parameter list, so with decl_only false every FunctionDef has a body.
BodyOrDeclaration ==
    \A i \in 1..Len(FoundFunctions) :
        \A d \in {FoundFunctions[i]} :
            /\ HasParams(d)
            /\ DeclOnly(d) \/ HasBody(d)
            /\ DeclOnly(d) =>
                  /\ last.args[4]
                  /\ AfterParams(d) < Len(source)
                  /\ Ch(source, AfterParams(d)) = ";"

DeclAndBodySeen ==
    /\ last.op = "find_function_prefix"
    /\ last.exc = "None"
    /\ last.args[4]
    /\ \E i, j \in 1..Len(last.res) :
          /\ DeclOnly(last.res[i])
          /\ Ch(source, AfterParams(last.res[i])) = ";"
          /\ HasBody(last.res[j])

\* ---- Function signatures: trailing qualifier ----

\* the elements of a sequence
Range(seq) == {seq[i] : i \in 1..Len(seq)}

\* the identifiers a find_function_prefix call with arguments q examines:
\* those matching the prefix or, under find_after, the identifier that
\* follows such a one
Examined(q) ==
    {m \in Range(self.identifier_metas) :
        \E k \in Range(find_identifier_prefix(self, q[1], q[3])) :
            IF q[2] THEN PastWhitespace(source, k.end) = m.start ELSE k = m}

\* m is followed by a parameter list
ParamsFollow(m) ==
    \A p \in {PastWhitespace(source, m.end)} :
        p < Len(source) /\ Ch(source, p) = "(" /\ HasBracketPair(self, p)

\* the first position after the parameter list of m that holds no whitespace
PastParams(m) ==
    PastWhitespace(source, BracketPairAt(self, PastWhitespace(source, m.end))[3] + 1)

\* a body or, under decl_only, a ';' follows position p
BodyOrSemicolonAt(p, decl_only) ==
    \A r \in {PastWhitespace(source, p)} :
        /\ r < Len(source)
        /\ Ch(source, r) = "{" \/ (decl_only /\ Ch(source, r) = ";")

\* the call has reported the identifier m
Reported(m) ==
    \E i \in 1..Len(last.res) : last.res[i].identifier_pos = m.start

\* C19: of the identifiers find_function_prefix examines, one whose
\* parameter list is followed by the identifier const, override or final
\* and then by a body (under decl_only: or by ';') is reported, and one
\* whose parameter list is followed by any other identifier is not.
TrailingQualifierAccepted ==
    (last.op = "find_function_prefix" /\ last.exc = "None") =>
        \A m \in Examined(last.args) :
            (ParamsFollow(m) /\ HasIdentifierAt(self, PastParams(m))) =>
                \A t \in {IdentifierAt(self, PastParams(m))} :
                    IF t.name \in func_attr_kw
                    THEN BodyOrSemicolonAt(t.end, last.args[4]) => Reported(m)
                    ELSE ~Reported(m)

\* ---- Marked identifiers ----

\* the indices of the namespace and class ranges that contain position p
Containing(p) ==
    {k \in 1..Len(self.namespace_ranges) :
        self.namespace_ranges[k][2] < p /\ p < self.namespace_ranges[k][3]}

\* the names of the ranges with indices in ks, the one that starts first
\* (of ranges containing one position: the outermost) first
RECURSIVE OutermostFirst(_)
OutermostFirst(ks) ==
    IF ks = {} THEN <<>>
    ELSE \* the range of ks that starts first, the earliest listed of equals
         LET k == CHOOSE k \in ks : \A j \in ks :
                    \/ self.namespace_ranges[k][2] < self.namespace_ranges[j][2]
                    \/ self.namespace_ranges[k][2] = self.namespace_ranges[j][2] /\ k <= j
         IN  <<self.namespace_ranges[k][1]>> \o OutermostFirst(ks \ {k})

\* the ranges containing p lie one inside the other
Nested(ks) ==
    \A j, k \in ks :
        self.namespace_ranges[j][2] <= self.namespace_ranges[k][2] =>
            self.namespace_ranges[j][3] >= self.namespace_ranges[k][3]

\* the identifiers that follow, after whitespace, an occurrence of the
\* identifier mark, in source order
MarkedIdentifiers(mark) ==
    LET marks == SelectSeq(self.identifier_metas_start_sorted, LAMBDA m :
                    m.name = mark /\ HasIdentifierAt(self, PastWhitespace(source, m.end)))
    IN  [i \in 1..Len(marks) |-> IdentifierAt(self, PastWhitespace(source, marks[i].end))]

\* C20: find_marked_identifier(mark) returns one pair for every occurrence
\* of the identifier mark that an identifier follows after whitespace, and
\* none for the other occurrences: the name of that identifier, and the
\* names of all the namespace and class ranges that contain its start,
\* outermost first, joined by '::' (the empty string when there is none).
MarkedReportsEnclosing ==
    last.op = "find_marked_identifier" =>
        \A ids \in {MarkedIdentifiers(last.args[1])} :
            /\ last.exc = "None"
            /\ Len(last.res) = Len(ids)
            /\ \A i \in 1..Len(ids) :
                  /\ Nested(Containing(ids[i].start))
                  /\ last.res[i] = <<ids[i].name,
                                     Join("::", OutermostFirst(Containing(ids[i].start)))>>

MarkedNestedSeen ==
    /\ last.op = "find_marked_identifier"
    /\ last.res = <<(<<"x", "n::A">>), (<<"y", "">>)>>
    /\ Cardinality({k \in 1..Len(self.identifier_metas) :
                       self.identifier_metas[k].name = last.args[1]}) = 3

\* ---- Template detection ----

\* the end of the statement before position p: the last ';' or '}' outside
\* comments and literals before p, or -1 when there is none
PrevStatementEnd(p) ==
    \* the greatest of these positions, -1 standing for the start of the text
    LET ends == {q \in CodePositions(source, self.tokens) :
                    q < p /\ Ch(source, q) \in {";", "}"}} \cup {-1}
    IN  CHOOSE q \in ends : \A r \in ends : r <= q

\* an identifier template lies between the end of the statement before p
\* and p
TemplateInStatement(p) ==
    \A b \in {PrevStatementEnd(p)} :
        \E k \in 1..Len(self.identifier_metas) :
            /\ self.identifier_metas[k].name = "template"
            /\ b < self.identifier_metas[k].start
            /\ self.identifier_metas[k].start < p

\* C21: every ClassDef of the iterator and every FunctionDef that
\* find_function_prefix returns has is_template true exactly when an
\* identifier template lies between the end of the previous statement
\* (the nearest ';' or '}' before the keyword or function identifier) and
\* that keyword or identifier.
TemplateBySameStatement ==
    pc = "ready" =>
        /\ \A i \in 1..Len(class_defs) :
              class_defs[i].is_template = TemplateInStatement(class_defs[i].keyword_pos)
        /\ \A i \in 1..Len(FoundFunctions) :
              FoundFunctions[i].is_template
                  = TemplateInStatement(FoundFunctions[i].identifier_pos)

\* ---- Class discovery: which occurrences yield a ClassDef ----

\* the class and struct keywords of the source
ClassKeywords ==
    {m \in Range(self.identifier_metas) : m.name \in {"class", "struct"}}

\* the positions of the character c outside comments and literals, from p on
SymbolsFrom(c, p) ==
    {q \in CodePositions(source, self.tokens) : q >= p /\ Ch(source, q) = c}

\* the keyword m may be skipped: no '{' follows it, a ';' comes before
\* that '{', or no identifier lies between the keyword and that '{'
MaySkip(m) ==
    \/ SymbolsFrom("{", m.end) = {}
    \/ \A curly \in {Least(SymbolsFrom("{", m.end))} :
          \/ \E q \in SymbolsFrom(";", m.end) : q < curly
          \/ ~\E n \in Range(self.identifier_metas) : m.end <= n.start /\ n.end <= curly

\* the ClassDefs emitted for the keyword m
EmittedFor(m) == {i \in 1..Len(class_defs) : class_defs[i].keyword_pos = m.start}

\* C22: after construction, a class or struct keyword that has a '{' after
\* it, no ';' before that '{' and an identifier between itself and that '{'
\* has exactly one ClassDef, and every ClassDef of a keyword has that first
\* '{' as body_start and the '}' paired with it as body_end.
ClassDefPerKeyword ==
    pc = "ready" =>
        \A m \in ClassKeywords :
            /\ ~MaySkip(m) => Cardinality(EmittedFor(m)) = 1
            /\ \A i \in EmittedFor(m) :
                  /\ class_defs[i].body_start = Least(SymbolsFrom("{", m.end))
                  /\ class_defs[i].body_end = BracketPairAt(self, class_defs[i].body_start)[3]

\* ---- Class discovery: the name ----

\* the identifiers between the keyword of the ClassDef c and its '{', in
\* source order
HeadIdentifiers(c) ==
    SelectSeq(self.identifier_metas_start_sorted, LAMBDA n :
        IdentifierAt(self, c.keyword_pos).end <= n.start /\ n.end <= c.body_start)

\* the name the head of a class gives: the third identifier from the end
\* when the second from the end is an access specifier, else the last
NameOfHead(idens) ==
    IF Len(idens) >= 3 /\ idens[Len(idens) - 1].name \in {"public", "protected", "private"}
    THEN idens[Len(idens) - 2].name
    ELSE idens[Len(idens)].name

\* C23: the name of every ClassDef is taken from the identifiers between
\* its keyword and its '{': the third from the end when the second from
\* the end is public, protected or private, otherwise the last (also when
\* there are fewer than three).
ClassNameFromHead ==
    pc = "ready" =>
        \A i \in 1..Len(class_defs) :
            \A idens \in {HeadIdentifiers(class_defs[i])} :
                /\ idens # <<>>
                /\ class_defs[i].name = NameOfHead(idens)

InheritedAndShortHeadSeen ==
    /\ pc = "ready"
    /\ \E i, j \in 1..Len(class_defs) :
          /\ class_defs[i].name = "D"
          /\ Len(HeadIdentifiers(class_defs[i])) = 3
          /\ HeadIdentifiers(class_defs[i])[2].name = "private"
          /\ class_defs[j].name = "E"
          /\ Len(HeadIdentifiers(class_defs[j])) = 2
          /\ HeadIdentifiers(class_defs[j])[1].name = "public"

\* ---- The namespace and class ranges ----

\* the first position at or after p that is neither whitespace nor comment
Following(p) == PastSkippable(source, self.tokens, p)

\* the namespace keywords that an identifier and then a '{' follow
NamedNamespaces ==
    {k \in Range(self.identifier_metas) :
        /\ k.name = "namespace"
        /\ HasIdentifierAt(self, Following(k.end))
        /\ \A q \in {Following(IdentifierAt(self, Following(k.end)).end)} :
              q < Len(source) /\ Ch(source, q) = "{" /\ HasBracketPair(self, q)}

\* the entry of the namespace keyword k: its name, its '{' and the '}'
\* paired with it
NamespaceEntry(k) ==
    LET n == IdentifierAt(self, Following(k.end))
        open == Following(n.end)
    IN  <<n.name, open, BracketPairAt(self, open)[3]>>

\* the entry of a ClassDef
ClassEntry(c) == <<c.name, c.body_start, c.body_end>>

\* C24: after construction the range list holds one entry for every
\* namespace keyword that an identifier and then a '{' follow, one entry
\* for every ClassDef, and nothing else, in ascending order of start.
RangesAreNamespacesAndClasses ==
    pc = "ready" =>
        \A ranges \in {self.namespace_ranges} :
            /\ Len(ranges) = Cardinality(NamedNamespaces) + Len(class_defs)
            /\ \A i \in 1..Len(ranges) :
                  Cardinality({j \in 1..Len(ranges) : ranges[j] = ranges[i]})
                      = Cardinality({k \in NamedNamespaces : NamespaceEntry(k) = ranges[i]})
                        + Cardinality({j \in 1..Len(class_defs) :
                                          ClassEntry(class_defs[j]) = ranges[i]})
            /\ \A i \in 1..(Len(ranges) - 1) : ranges[i][2] <= ranges[i + 1][2]

\* ---- Function discovery: the local id ----

\* the indices of the ranges that contain the identifier m whole
ContainingWhole(m) ==
    {k \in 1..Len(self.namespace_ranges) :
        self.namespace_ranges[k][2] < m.start /\ m.end < self.namespace_ranges[k][3]}

\* C25: every FunctionDef find_function_prefix returns is named after the
\* identifier at its identifier_pos, which is one the call examines (under
\* find_after: the identifier following the marker), and its local_id is
\* the names of all ranges containing that identifier, outermost first,
\* and then the function name, joined by '::' (the bare name when no
\* range contains it).
FunctionLocalId ==
    \A i \in 1..Len(FoundFunctions) :
        \A d \in {FoundFunctions[i]} :
            /\ HasIdentifierAt(self, d.identifier_pos)
            /\ \A m \in {IdentifierAt(self, d.identifier_pos)} :
                  /\ m \in Examined(last.args)
                  /\ d.name = m.name
                  /\ Nested(ContainingWhole(m))
                  /\ d.local_id = Join("::", Append(OutermostFirst(ContainingWhole(m)), m.name))

FunctionDepthsSeen ==
    /\ last.op = "find_function_prefix"
    /\ last.args[2]
    /\ Len(last.res) = 3
    /\ last.res[1].local_id = "n::S::f"
    /\ last.res[2].local_id = "n::g"
    /\ last.res[3].local_id = "h"

\* ---- The pair table: nesting ----

\* C26: after construction, no two recorded bracket pairs, of one kind or
\* of two, interleave: there are no pairs with
\* open1 < open2 < close1 < close2 (a source whose brackets interleave is
\* rejected, so that none is recorded for it).
PairsNeverInterleave ==
    pc = "ready" =>
        \A i, j \in 1..Len(self.bracket_pairs) :
            ~ (/\ self.bracket_pairs[i][2] < self.bracket_pairs[j][2]
               /\ self.bracket_pairs[j][2] < self.bracket_pairs[i][3]
               /\ self.bracket_pairs[i][3] < self.bracket_pairs[j][3])

\* ---- The range list: one entry per scope ----

\* C27: after construction no two entries of the namespace and class range
\* list cover the same brace pair, and any two entries are disjoint or one
\* lies strictly inside the other, so that a qualified id has one
\* component for each enclosing scope.
OneRangePerScope ==
    pc = "ready" =>
        \A ranges \in {self.namespace_ranges} :
            \A i, j \in 1..Len(ranges) :
                i < j =>
                    \/ ranges[i][3] < ranges[j][2]
                    \/ ranges[j][3] < ranges[i][2]
                    \/ ranges[i][2] < ranges[j][2] /\ ranges[j][3] < ranges[i][3]
                    \/ ranges[j][2] < ranges[i][2] /\ ranges[i][3] < ranges[j][3]

\* ---- The point query on the ignored ranges ----

\* where the cursor belongs after skipping from p: the end of the comment
\* or literal that holds p (its start included), else p
IgnoredEnd(p) ==
    IF \E k \in 1..Len(self.tokens) :
           /\ self.tokens[k].kind \in IgnoredKinds
           /\ self.tokens[k].start <= p
           /\ p < self.tokens[k].end
    THEN self.tokens[CHOOSE k \in 1..Len(self.tokens) :
                        /\ self.tokens[k].kind \in IgnoredKinds
                        /\ self.tokens[k].start <= p
                        /\ p < self.tokens[k].end].end
    ELSE p

\* C28: skip_string_comment called with the cursor at p leaves it at the
\* end of the comment or literal range that holds p, the first position of
\* the range included, and at p when no range holds p.
SkipIsPointQuery ==
    last.op = "skip_string_comment" => pos = IgnoredEnd(last.args[1])

\* ---- The symbol index ----

\* seq is strictly increasing
Increasing(seq) == \A i \in 1..(Len(seq) - 1) : seq[i] < seq[i + 1]

\* C29: after construction the index of every tracked symbol lists, in
\* strictly increasing order, exactly the positions outside comments and
\* literals that hold the symbol, and both ends of every bracket pair are
\* among the listed positions of its opening and of its closing bracket.
SymbolIndexIsCode ==
    pc = "ready" =>
        \A code \in {CodePositions(source, self.tokens)} :
            /\ \A sym \in AllSymbols :
                  /\ Increasing(self.symbol_to_poses[sym])
                  /\ Range(self.symbol_to_poses[sym]) = {p \in code : Ch(source, p) = sym}
            /\ \A i \in 1..Len(self.bracket_pairs) :
                  \A pair \in {self.bracket_pairs[i]} :
                      /\ pair[2] \in Range(self.symbol_to_poses[pair[1]])
                      /\ \E close \in CloseBrackets :
                            /\ end_brackets(close) = pair[1]
                            /\ pair[3] \in Range(self.symbol_to_poses[close])

\* a symbol is indexed, the same symbol inside a comment or literal is
\* not, and an ignored range ends where the next one starts
SymbolsInAndOutSeen ==
    /\ pc = "ready"
    /\ source \in AdjacentSources
    /\ \E sym \in AllSymbols :
          /\ self.symbol_to_poses[sym] # <<>>
          /\ \E p \in 0..(Len(source) - 1) :
                Ch(source, p) = sym /\ InsideIgnored(self.tokens, p)
    /\ \E i, j \in 1..Len(self.ignore_ranges) :
          self.ignore_ranges[i][2] = self.ignore_ranges[j][1]

\* ------------------------------------------------------------------------
\* C30
\* ------------------------------------------------------------------------

\* a call has just changed the object named name, after r was made by
\* a + b or a.inherit(b)
AddedAfterMerge(name) ==
    /\ meta.made # "none"
    /\ meta'.made = meta.made
    /\ meta'.calls = meta.calls + 1
    /\ meta'.op[1] = name

\* the calls on the result the claim names
ResultCalls ==
    {"add_cflags", "add_public_cflags", "add_private_cflags", "add_ldflags", "add_includes",
     "add_libraries"}

\* the object named name holds after the step what it held before
Untouched(name) == MetaValue(meta'.objs, name) = MetaValue(meta.objs, name)

\* C30: the result of a + b and of a.inherit(b) is independent of its
\* operands: an add_cflags, add_public_cflags, add_private_cflags,
\* add_ldflags, add_includes or add_libraries call on the result leaves the
\* flags, includes, libraries and library paths of a and of b as they were,
\* and a later call that changes a or b leaves those of the result as
\* they were.
MergeResultIndependent ==
    [][/\ (AddedAfterMerge("r") /\ meta'.op[2] \in ResultCalls)
              => (Untouched("a") /\ Untouched("b"))
       /\ (AddedAfterMerge("a") \/ AddedAfterMerge("b")) => Untouched("r")]_vars

====
